---------------------------- MODULE Spec2Model ----------------------------
(***************************************************************************)
(* A model of the swec server (src/swec): the ring buffer that holds a     *)
(* checker's status history, the registry of checkers with its broadcast   *)
(* channels, the HTTP handlers of the read-only and read-write routers and *)
(* the WebSocket bridge that forwards broadcast messages to subscribers.   *)
(*                                                                         *)
(* Two specifications share the module:                                    *)
(*   SpecRB  the RingBuffer type driven directly through its methods;      *)
(*   Spec    the server: requests, subscriptions and message forwarding.   *)
(***************************************************************************)
EXTENDS Integers, Sequences, FiniteSets, TLC

(***************************************************************************)
(* Bounds of the model.                                                    *)
(***************************************************************************)
\* largest capacity handed to RingBuffer::new / resize / truncate_fifo
MaxCapacity == 3
\* number of method calls made on the ring buffer under SpecRB
MaxRbOps == 4

\* number of mutations (POST/PUT/DELETE that succeed) the server commits
MaxCommits == 3
\* number of WebSocket subscriptions opened
MaxSubs == 2
\* work explored in one run: a committed mutation counts for one, an opened
\* subscription (which brings its own forwarding steps) for two
MaxLoad == 5
\* largest history_len the server is started with (main.rs fixes one value)
MaxHistoryLen == 2
\* slots of a broadcast channel; the source creates its channels with 16
\* slots (api.rs lines 395, 444, 468), the model checks a smaller ring so
\* that a subscriber falls behind within MaxCommits mutations
ChannelCapacity == 1

\* the elements pushed under SpecRB
Elems == {"x", "y"}
\* checker names, spec bodies, status bodies and readings of Local::now()
Names == {"a", "b"}
Specs == {"S1", "S2"}
Statuses == {"up", "down"}
Times == {1}

\* Option<T>
None == <<>>
Some(x) == <<x>>

Min(a, b) == IF a < b THEN a ELSE b
Max(a, b) == IF a < b THEN b ELSE a

\* the last n elements of s, in order (all of s when n >= Len(s))
LastN(s, n) == SubSeq(s, Len(s) - Min(n, Len(s)) + 1, Len(s))

\* all sequences over S of length at most n
SeqsUpTo(S, n) == UNION {[1..k -> S] : k \in 0..n}

(***************************************************************************)
(* RingBuffer<T>  (src/swec/src/ringbuffer.rs)                             *)
(* A buffer is [inner |-> the VecDeque oldest first, capacity |-> usize].  *)
(***************************************************************************)
RingBuffer_new(capacity) == [inner |-> <<>>, capacity |-> capacity]

\* VecDeque::pop_front: removes the front element, a no-op on an empty deque
pop_front(inner) == IF inner = <<>> THEN inner ELSE Tail(inner)

push_no_evict(rb, elem) == [rb EXCEPT !.inner = Append(rb.inner, elem)]

push(rb, elem) ==
    LET popped == IF Len(rb.inner) = rb.capacity
                  THEN pop_front(rb.inner)
                  ELSE rb.inner
    IN  [rb EXCEPT !.inner = Append(popped, elem)]

RECURSIVE push_multiple(_, _)
push_multiple(rb, iter) ==
    IF iter = <<>> THEN rb
    ELSE push_multiple(push(rb, Head(iter)), Tail(iter))

iter(rb) == rb.inner
capacity(rb) == rb.capacity
len(rb) == Len(rb.inner)

resize_dropping(rb, cap) ==
    [ok |-> TRUE, rb |-> [inner |-> LastN(rb.inner, cap), capacity |-> cap]]

resize_checks_length(rb, cap) ==
    IF cap < Len(rb.inner)
    THEN [ok |-> FALSE, rb |-> rb]
    ELSE [ok |-> TRUE, rb |-> [rb EXCEPT !.capacity = cap]]

\* Result<(), ResizeError> together with the buffer after the call
resize(rb, cap) ==
    IF cap < rb.capacity
    THEN [ok |-> FALSE, rb |-> rb]
    ELSE [ok |-> TRUE, rb |-> [rb EXCEPT !.capacity = cap]]

RECURSIVE pop_while_longer(_, _)
pop_while_longer(inner, cap) ==
    IF Len(inner) > cap THEN pop_while_longer(pop_front(inner), cap) ELSE inner

truncate_fifo(rb, cap) ==
    LET inner == IF cap < rb.capacity
                 THEN pop_while_longer(rb.inner, cap)
                 ELSE rb.inner
    IN  [inner |-> inner, capacity |-> cap]

\* From<VecDeque<T>>, the path Deserialize takes
RingBuffer_from(inner) == [inner |-> inner, capacity |-> Len(inner)]

(***************************************************************************)
(* State.                                                                  *)
(***************************************************************************)
VARIABLES
    rb,         \* SpecRB: the ring buffer under test
    rb_call,    \* SpecRB: the last call made on rb and what it observed
    app_state,  \* AppState { checkers: BTreeMapWithSender, history_len }
    channels,   \* every broadcast channel created so far: is its sender gone
    subs,       \* the live WebSocket subscriptions: receiver, position, frames
    opened,     \* number of subscriptions opened so far
    resp,       \* the last HTTP request and the response it got
    ledger,     \* what the acknowledged writes say each present checker holds
    commits,    \* number of mutations committed
    dump_file,  \* swec_dump.json: [exists, content], content a JSON document
    proc,       \* the server process: where main() is and how it last ended
    lock,       \* SpecLock: the RwLock around AppState: who holds it, and how
    tasks,      \* SpecLock: the tasks that take the lock, and where each is
    client,     \* SpecClient: a run of the command-line client (swec-client)
    writers     \* SpecStop: the two writers of the dump file, and its offset

rb_vars == <<rb, rb_call>>
server_vars == <<app_state, channels, subs, opened, resp, ledger, commits>>
main_vars == <<dump_file, proc, writers>>
lock_vars == <<lock, tasks>>
client_vars == <<client>>
vars == <<rb, rb_call, app_state, channels, subs, opened, resp, ledger, commits,
          dump_file, proc, lock, tasks, client, writers>>

(***************************************************************************)
(* tokio::sync::broadcast as the server uses it, seen from the receivers.  *)
(* A bus is [channels |-> <<[closed |-> sender dropped], ...>>,            *)
(*           subs |-> the live subscriptions, each holding a receiver].    *)
(* A receiver is                                                           *)
(*   [chan |-> index into channels,                                        *)
(*    log  |-> every message sent on chan since the receiver was made,     *)
(*    next |-> how many of them the receiver has passed];                  *)
(* the ring still holds the last ChannelCapacity messages of log.          *)
(* channels[1] is the list channel of the registry.                        *)
(***************************************************************************)
new_channel == [closed |-> FALSE]

\* a send that reaches the receivers of every channel
send_to_every_receiver(bus, id, msg) ==
    [bus EXCEPT !.subs =
        [i \in DOMAIN bus.subs |-> [bus.subs[i] EXCEPT !.rx.log = Append(@, msg)]]]

\* Sender::send: every live receiver of the channel gets msg to read (with
\* no receiver the call returns Err and nothing is stored)
send(bus, id, msg) ==
    [bus EXCEPT !.subs =
        [i \in DOMAIN bus.subs |->
            IF bus.subs[i].rx.chan = id
            THEN [bus.subs[i] EXCEPT !.rx.log = Append(@, msg)]
            ELSE bus.subs[i]]]

\* Sender::subscribe: the new receiver starts at the tail
Sender_subscribe(id) == [chan |-> id, log |-> <<>>, next |-> 0]

\* dropping the only Sender closes the channel
drop_sender(bus, id) == [bus EXCEPT !.channels[id].closed = TRUE]

\* index (in log) before which nothing is retained any more
oldest_retained(rx) == Max(0, Len(rx.log) - ChannelCapacity)

\* a receiver that resumes one message too far after a lag
recv_skips_after_lag(chs, rx) ==
    IF rx.next < oldest_retained(rx)
    THEN [kind |-> "lagged", val |-> oldest_retained(rx) - rx.next,
          rx |-> [rx EXCEPT !.next = oldest_retained(rx) + 1]]
    ELSE IF rx.next < Len(rx.log)
    THEN [kind |-> "msg", val |-> rx.log[rx.next + 1],
          rx |-> [rx EXCEPT !.next = rx.next + 1]]
    ELSE [kind |-> IF chs[rx.chan].closed THEN "closed" ELSE "empty",
          val |-> 0, rx |-> rx]

\* BroadcastStream::next on receiver rx: a message, Lagged(n) (the receiver
\* then resumes at the oldest retained message), the end of the stream
\* (kind "closed") or nothing yet (kind "empty")
recv(chs, rx) ==
    IF rx.next < oldest_retained(rx)
    THEN [kind |-> "lagged", val |-> oldest_retained(rx) - rx.next,
          rx |-> [rx EXCEPT !.next = oldest_retained(rx)]]
    ELSE IF rx.next < Len(rx.log)
    THEN [kind |-> "msg", val |-> rx.log[rx.next + 1],
          rx |-> [rx EXCEPT !.next = rx.next + 1]]
    ELSE [kind |-> IF chs[rx.chan].closed THEN "closed" ELSE "empty",
          val |-> 0, rx |-> rx]

(***************************************************************************)
(* CheckerWithSender  (api.rs, mod checker_with_sender)                    *)
(*   [checker |-> [spec, statuses], sender |-> channel index]              *)
(***************************************************************************)
Checker_new(spec, buf) == [spec |-> spec, statuses |-> buf]

\* the new wrapper is given the channel of a dropped one when there is one
CheckerWithSender_reuses_channel(bus, checker) ==
    IF \E id \in DOMAIN bus.channels : bus.channels[id].closed
    THEN LET id == CHOOSE id \in DOMAIN bus.channels : bus.channels[id].closed
         IN  [cws |-> [checker |-> checker, sender |-> id],
              bus |-> [bus EXCEPT !.channels[id].closed = FALSE]]
    ELSE [cws |-> [checker |-> checker, sender |-> Len(bus.channels) + 1],
          bus |-> [bus EXCEPT !.channels = Append(@, new_channel)]]

\* returns the wrapper and the bus with its fresh channel added
CheckerWithSender_new(bus, checker) ==
    [cws |-> [checker |-> checker, sender |-> Len(bus.channels) + 1],
     bus |-> [bus EXCEPT !.channels = Append(@, new_channel)]]

CheckerWithSender_subscribe(cws) == Sender_subscribe(cws.sender)

\* the spec is replaced only when the broadcast found a receiver
update_spec_needs_receiver(bus, cws, spec) ==
    IF \E i \in DOMAIN bus.subs : bus.subs[i].rx.chan = cws.sender
    THEN [cws |-> [cws EXCEPT !.checker.spec = spec],
          bus |-> send(bus, cws.sender, <<"UpdatedSpec", spec>>)]
    ELSE [cws |-> cws, bus |-> bus]

\* the spec replaced without a broadcast
update_spec_silent(bus, cws, spec) ==
    [cws |-> [cws EXCEPT !.checker.spec = spec], bus |-> bus]

update_spec(bus, cws, spec) ==
    [cws |-> [cws EXCEPT !.checker.spec = spec],
     bus |-> send(bus, cws.sender, <<"UpdatedSpec", spec>>)]

\* the entry pushed without a broadcast
add_status_silent(bus, cws, time, status) ==
    [cws |-> [cws EXCEPT !.checker.statuses = push(@, <<time, status>>)],
     bus |-> bus]

\* the broadcast is made but the entry is not stored
add_status_not_stored(bus, cws, time, status) ==
    [cws |-> cws, bus |-> send(bus, cws.sender, <<"AddedStatus", time, status>>)]

\* time is the reading of Local::now() taken inside add_status
add_status(bus, cws, time, status) ==
    [cws |-> [cws EXCEPT !.checker.statuses = push(@, <<time, status>>)],
     bus |-> send(bus, cws.sender, <<"AddedStatus", time, status>>)]

\* the sender dropped without the farewell message
drop_without_notice(bus, cws) == drop_sender(bus, cws.sender)

\* Drop for CheckerWithSender, then the drop of its sender field
CheckerWithSender_drop(bus, cws) ==
    drop_sender(send(bus, cws.sender, <<"CheckerDropped">>), cws.sender)

(***************************************************************************)
(* BTreeMapWithSender  (api.rs, mod btreemap_with_sender)                  *)
(*   [btreemap |-> function from the present names, sender |-> 1]          *)
(***************************************************************************)
BTreeMap_insert(m, key, value) ==
    [k \in DOMAIN m \cup {key} |-> IF k = key THEN value ELSE m[k]]

BTreeMap_remove(m, key) == [k \in DOMAIN m \ {key} |-> m[k]]

keys(map) == DOMAIN map.btreemap

BTreeMapWithSender_subscribe(map) == Sender_subscribe(map.sender)

\* Insert(key) is sent even when the key was there
insert_always_says_insert(bus, map, key, value) ==
    [map |-> [map EXCEPT !.btreemap = BTreeMap_insert(@, key, value)],
     bus |-> send(bus, map.sender, <<"Insert", key>>),
     r |-> IF key \in DOMAIN map.btreemap THEN Some(map.btreemap[key]) ELSE None]

\* returns the map, the bus and the replaced value r (Option<T>)
BTreeMapWithSender_insert(bus, map, key, value) ==
    LET present == key \in DOMAIN map.btreemap
        msg == IF present THEN <<"InsertReplace", key>> ELSE <<"Insert", key>>
    IN  [map |-> [map EXCEPT !.btreemap = BTreeMap_insert(@, key, value)],
         bus |-> send(bus, map.sender, msg),
         r |-> IF present THEN Some(map.btreemap[key]) ELSE None]

\* Remove(key) is sent whether or not the key was there
remove_always_notifies(bus, map, key) ==
    [map |-> [map EXCEPT !.btreemap = BTreeMap_remove(@, key)],
     bus |-> send(bus, map.sender, <<"Remove", key>>),
     r |-> IF key \in DOMAIN map.btreemap THEN Some(map.btreemap[key]) ELSE None]

BTreeMapWithSender_remove(bus, map, key) ==
    IF key \in DOMAIN map.btreemap
    THEN [map |-> [map EXCEPT !.btreemap = BTreeMap_remove(@, key)],
          bus |-> send(bus, map.sender, <<"Remove", key>>),
          r |-> Some(map.btreemap[key])]
    ELSE [map |-> map, bus |-> bus, r |-> None]

(***************************************************************************)
(* AppState  (api.rs lines 284-372)                                        *)
(***************************************************************************)
\* AppState::new: every restored checker is wrapped with a channel of its
\* own (here in key order, from index 2); the registry owns channel 1.
\* Returns the state and the bus with the channels created.
RECURSIVE wrap_all(_, _, _)
wrap_all(checkers, todo, acc) ==
    IF todo = {} THEN acc
    ELSE LET name == CHOOSE n \in todo : TRUE
             made == CheckerWithSender_new(acc.bus, checkers[name])
         IN  wrap_all(checkers, todo \ {name},
                      [btreemap |-> BTreeMap_insert(acc.btreemap, name, made.cws),
                       bus |-> made.bus])

AppState_new(checkers, history_len) ==
    LET all == wrap_all(checkers, DOMAIN checkers,
                        [btreemap |-> <<>>,
                         bus |-> [channels |-> <<new_channel>>, subs |-> <<>>]])
    IN  [st |-> [checkers |-> [btreemap |-> all.btreemap, sender |-> 1],
                 history_len |-> history_len],
         bus |-> all.bus]

\* an Option<CheckerWithSender> going out of scope
drop_option(bus, opt) ==
    IF opt = None THEN bus ELSE CheckerWithSender_drop(bus, opt[1])

\* lines 311-319: the new wrapper is built and inserted; the Option that
\* insert returns is dropped
insert_new_checker(st, bus, name, checker_spec) ==
    LET made == CheckerWithSender_new(bus,
                    Checker_new(checker_spec, RingBuffer_new(st.history_len)))
        ins  == BTreeMapWithSender_insert(made.bus, st.checkers, name, made.cws)
    IN  [ok |-> TRUE,
         st |-> [st EXCEPT !.checkers = ins.map],
         bus |-> drop_option(ins.bus, ins.r)]

\* the insertion made without looking for the name first
add_checker_unguarded(st, bus, name, checker_spec) ==
    insert_new_checker(st, bus, name, checker_spec)

\* Ok is returned but the registry is left as it was
add_checker_not_stored(st, bus, name, checker_spec) ==
    [ok |-> name \notin DOMAIN st.checkers.btreemap, st |-> st, bus |-> bus]

add_checker(st, bus, name, checker_spec) ==
    IF name \in DOMAIN st.checkers.btreemap
    THEN [ok |-> FALSE, st |-> st, bus |-> bus]
    ELSE insert_new_checker(st, bus, name, checker_spec)

\* the wrapper is dropped but its entry stays in the registry
remove_checker_keeps_entry(st, bus, name) ==
    LET rem == BTreeMapWithSender_remove(bus, st.checkers, name) IN
    [ok |-> rem.r # None,
     checker |-> IF rem.r = None THEN None ELSE Some(rem.r[1].checker),
     st |-> st,
     bus |-> drop_option(rem.bus, rem.r)]

\* Ok carries a clone of the removed checker; the wrapper is dropped
remove_checker(st, bus, name) ==
    LET rem == BTreeMapWithSender_remove(bus, st.checkers, name) IN
    [ok |-> rem.r # None,
     checker |-> IF rem.r = None THEN None ELSE Some(rem.r[1].checker),
     st |-> [st EXCEPT !.checkers = rem.map],
     bus |-> drop_option(rem.bus, rem.r)]

get_checker_with_sender(st, name) ==
    IF name \in DOMAIN st.checkers.btreemap
    THEN Some(st.checkers.btreemap[name])
    ELSE None

get_checker(st, name) ==
    IF get_checker_with_sender(st, name) = None
    THEN None
    ELSE Some(get_checker_with_sender(st, name)[1].checker)

\* the wrapper behind name replaced by cws (the effect of a &mut borrow)
set_checker_with_sender(st, name, cws) ==
    [st EXCEPT !.checkers.btreemap[name] = cws]

(***************************************************************************)
(* JSON  (serde_json over the Serialize / Deserialize impls of             *)
(* ringbuffer.rs lines 150-179 and swec-core checker.rs lines 26-84).      *)
(* A document is a sequence of lexemes:                                    *)
(*   <<"{">> <<"}">> <<"[">> <<"]">>   the punctuation                     *)
(*   <<"key", k>>                      an object key                       *)
(*   <<"str", s>>                      a spec body                         *)
(*   <<"elem", e>>                     one element of an array             *)
(* A parse returns [ok, val, pos]: whether it succeeded, the value read    *)
(* and the position of the first lexeme after it.                          *)
(***************************************************************************)
\* the keys of a BTreeMap in iteration order
NameOrder == <<"a", "b">>

ParseError(pos) == [ok |-> FALSE, val |-> <<>>, pos |-> pos]

\* a sequence is emitted front to back
serialize_seq(elems) ==
    << <<"[">> >> \o [k \in 1..Len(elems) |-> <<"elem", elems[k]>>] \o << <<"]">> >>

\* the elements are emitted back to front
serialize_newest_first(buf) ==
    serialize_seq([k \in 1..Len(buf.inner) |-> buf.inner[Len(buf.inner) + 1 - k]])

\* ringbuffer.rs lines 150-160: the inner deque is serialized, not capacity
RingBuffer_serialize(buf) == serialize_seq(buf.inner)

RECURSIVE read_elems(_, _, _)
read_elems(c, pos, acc) ==
    IF pos > Len(c) THEN ParseError(pos)
    ELSE IF c[pos][1] = "]" THEN [ok |-> TRUE, val |-> acc, pos |-> pos + 1]
    ELSE IF c[pos][1] = "elem" THEN read_elems(c, pos + 1, Append(acc, c[pos][2]))
    ELSE ParseError(pos)

VecDeque_deserialize(c, pos) ==
    IF pos <= Len(c) /\ c[pos][1] = "["
    THEN read_elems(c, pos + 1, <<>>)
    ELSE ParseError(pos)

\* the buffer is given a capacity of its own, unrelated to what was read
deserialize_with_capacity(c, pos) ==
    LET d == VecDeque_deserialize(c, pos) IN
    [ok |-> d.ok, val |-> [inner |-> d.val, capacity |-> MaxCapacity], pos |-> d.pos]

\* ringbuffer.rs lines 162-172: VecDeque::deserialize(..).map(Self::from)
RingBuffer_deserialize(c, pos) ==
    LET d == VecDeque_deserialize(c, pos) IN
    [ok |-> d.ok, val |-> RingBuffer_from(d.val), pos |-> d.pos]

\* checker.rs lines 26-33: a map of two entries, "spec" then "statuses"
Checker_serialize(checker) ==
    << <<"{">>, <<"key", "spec">>, <<"str", checker.spec>>, <<"key", "statuses">> >>
        \o RingBuffer_serialize(checker.statuses) \o << <<"}">> >>

\* checker.rs lines 57-82, CheckerVisitor::visit_map: the keys are read in
\* whatever order they come; a duplicate, an unknown or a missing field is
\* an error
RECURSIVE visit_map(_, _, _, _)
visit_map(c, pos, spec, statuses) ==
    IF pos > Len(c) THEN ParseError(pos)
    ELSE IF c[pos][1] = "}"
    THEN IF spec = None \/ statuses = None
         THEN ParseError(pos)
         ELSE [ok |-> TRUE,
               val |-> [spec |-> spec[1], statuses |-> statuses[1]],
               pos |-> pos + 1]
    ELSE IF c[pos][1] # "key" THEN ParseError(pos)
    ELSE IF c[pos][2] = "spec"
    THEN IF spec # None \/ pos + 1 > Len(c) THEN ParseError(pos)
         ELSE IF c[pos + 1][1] # "str" THEN ParseError(pos)
         ELSE visit_map(c, pos + 2, Some(c[pos + 1][2]), statuses)
    ELSE IF c[pos][2] = "statuses"
    THEN IF statuses # None THEN ParseError(pos)
         ELSE LET d == RingBuffer_deserialize(c, pos + 1) IN
              IF d.ok THEN visit_map(c, d.pos, spec, Some(d.val))
              ELSE ParseError(pos)
    ELSE ParseError(pos)

\* checker.rs lines 35-46
Checker_deserialize(c, pos) ==
    IF pos <= Len(c) /\ c[pos][1] = "{"
    THEN visit_map(c, pos + 1, None, None)
    ELSE ParseError(pos)

\* api.rs lines 355-361: the checkers without their senders
get_checkers(st) ==
    [name \in DOMAIN st.checkers.btreemap |-> st.checkers.btreemap[name].checker]

RECURSIVE serialize_entries(_, _)
serialize_entries(checkers, k) ==
    IF k > Len(NameOrder) THEN <<>>
    ELSE (IF NameOrder[k] \in DOMAIN checkers
          THEN << <<"key", NameOrder[k]>> >> \o Checker_serialize(checkers[NameOrder[k]])
          ELSE <<>>)
         \o serialize_entries(checkers, k + 1)

\* serde_json::to_string of a BTreeMap<String, Checker>: its entries in key
\* order
to_string(checkers) ==
    << <<"{">> >> \o serialize_entries(checkers, 1) \o << <<"}">> >>

\* api.rs lines 363-371
checkers_to_json(st) == to_string(get_checkers(st))

RECURSIVE read_entries(_, _, _)
read_entries(c, pos, acc) ==
    IF pos > Len(c) THEN ParseError(pos)
    ELSE IF c[pos][1] = "}" THEN [ok |-> TRUE, val |-> acc, pos |-> pos + 1]
    ELSE IF c[pos][1] # "key" THEN ParseError(pos)
    ELSE LET d == Checker_deserialize(c, pos + 1) IN
         IF d.ok
         THEN read_entries(c, d.pos, BTreeMap_insert(acc, c[pos][2], d.val))
         ELSE ParseError(pos)

\* serde_json::from_slice::<BTreeMap<String, Checker>>: one map, and nothing
\* after it
from_slice(contents) ==
    IF contents # <<>> /\ contents[1][1] = "{"
    THEN LET d == read_entries(contents, 2, <<>>) IN
         IF d.ok /\ d.pos = Len(contents) + 1 THEN d ELSE ParseError(d.pos)
    ELSE ParseError(1)

(***************************************************************************)
(* The HTTP handlers (api.rs lines 73-228).  Each takes the state lock for *)
(* one statement, so its effect on the state is one step.  A handler's     *)
(* step records the request and its response in resp, and a successful     *)
(* write records what it acknowledged in ledger:                           *)
(*   ledger[name].spec     the spec body last acknowledged (201 / 200)     *)
(*   ledger[name].posted   the entries appended since the 201, in order    *)
(***************************************************************************)
Resp(op, name, code, body) == [op |-> op, name |-> name, code |-> code, body |-> body]

Bump(ok) == IF ok THEN commits + 1 ELSE commits

Bus == [channels |-> channels, subs |-> subs]

PostCheckerSpecReq(name, spec) ==
    LET r == add_checker(app_state, Bus, name, spec) IN
    /\ commits < MaxCommits /\ commits + 2 * opened + 1 <= MaxLoad
    /\ app_state' = r.st
    /\ channels' = r.bus.channels
    /\ subs' = r.bus.subs
    /\ resp' = Resp("post_checker_spec", name,
                    IF r.ok THEN 201 ELSE 409, IF r.ok THEN Some(spec) ELSE None)
    /\ ledger' = IF r.ok
                 THEN BTreeMap_insert(ledger, name, [spec |-> spec, posted |-> <<>>])
                 ELSE ledger
    /\ commits' = Bump(r.ok)
    /\ UNCHANGED <<opened, rb_vars, main_vars>>

PutCheckerSpecReq(name, spec) ==
    LET w == get_checker_with_sender(app_state, name)
        u == update_spec(Bus, w[1], spec)
    IN
    /\ commits < MaxCommits /\ commits + 2 * opened + 1 <= MaxLoad
    /\ IF w = None
       THEN /\ resp' = Resp("put_checker_spec", name, 404, None)
            /\ UNCHANGED <<app_state, channels, subs, ledger>>
       ELSE /\ app_state' = set_checker_with_sender(app_state, name, u.cws)
            /\ channels' = u.bus.channels
            /\ subs' = u.bus.subs
            /\ resp' = Resp("put_checker_spec", name, 200, Some(spec))
            /\ ledger' = [ledger EXCEPT ![name].spec = spec]
    /\ commits' = Bump(w # None)
    /\ UNCHANGED <<opened, rb_vars, main_vars>>

PostCheckerStatusReq(name, status, now) ==
    LET w == get_checker_with_sender(app_state, name)
        u == add_status(Bus, w[1], now, status)
    IN
    /\ commits < MaxCommits /\ commits + 2 * opened + 1 <= MaxLoad
    /\ IF w = None
       THEN /\ resp' = Resp("post_checker_status", name, 404, None)
            /\ UNCHANGED <<app_state, channels, subs, ledger>>
       ELSE /\ app_state' = set_checker_with_sender(app_state, name, u.cws)
            /\ channels' = u.bus.channels
            /\ subs' = u.bus.subs
            /\ resp' = Resp("post_checker_status", name, 201, Some(status))
            /\ ledger' = [ledger EXCEPT ![name].posted = Append(@, <<now, status>>)]
    /\ commits' = Bump(w # None)
    /\ UNCHANGED <<opened, rb_vars, main_vars>>

DeleteCheckerReq(name) ==
    LET r == remove_checker(app_state, Bus, name) IN
    /\ commits < MaxCommits /\ commits + 2 * opened + 1 <= MaxLoad
    /\ app_state' = r.st
    /\ channels' = r.bus.channels
    /\ subs' = r.bus.subs
    /\ resp' = Resp("delete_checker", name, IF r.ok THEN 200 ELSE 404, r.checker)
    /\ ledger' = IF r.ok THEN BTreeMap_remove(ledger, name) ELSE ledger
    /\ commits' = Bump(r.ok)
    /\ UNCHANGED <<opened, rb_vars, main_vars>>

\* The read-only handlers change nothing: each is the answer it computes
\* from the state it reads under the shared lock, [code, body].
Answer(body) == [code |-> IF body = None THEN 404 ELSE 200, body |-> body]

get_checker_response(st, name) == Answer(get_checker(st, name))

get_checker_spec_response(st, name) ==
    LET c == get_checker(st, name) IN
    Answer(IF c = None THEN None ELSE Some(c[1].spec))

\* checker.statuses.collect(): the clone drained from the front
get_checker_statuses_response(st, name) ==
    LET c == get_checker(st, name) IN
    Answer(IF c = None THEN None ELSE Some(iter(c[1].statuses)))

\* the iterator is left in its forward order
rev_forward(s) == s

\* Iterator::rev over the deque's iterator: next_back until it is empty
RECURSIVE rev(_)
rev(s) ==
    IF s = <<>> THEN <<>>
    ELSE <<s[Len(s)]>> \o rev(SubSeq(s, 1, Len(s) - 1))

\* Iterator::nth: the element after index others, None past the end
nth(s, index) == IF index < Len(s) THEN Some(s[index + 1]) ELSE None

\* api.rs lines 149-162
get_checker_status_response(st, name, index) ==
    LET c == get_checker(st, name) IN
    Answer(IF c = None THEN None ELSE nth(rev(iter(c[1].statuses)), index))

(***************************************************************************)
(* The watch upgrades (api.rs lines 182-228) and handle_ws (230-282).      *)
(* A subscription is                                                       *)
(*   [rx |-> the receiver, initial |-> the Initial message built with it,  *)
(*    pc |-> "initial" | "loop", frames |-> the frames sent so far]        *)
(***************************************************************************)
\* statuses.iter().next_back().cloned()
next_back(buf) ==
    IF buf.inner = <<>> THEN None ELSE Some(buf.inner[Len(buf.inner)])

\* statuses.iter().next().cloned()
next_front(buf) ==
    IF buf.inner = <<>> THEN None ELSE Some(buf.inner[1])

initial_from_oldest(cws) ==
    <<"Initial", cws.checker.spec, next_front(cws.checker.statuses)>>

checker_initial_message(cws) ==
    <<"Initial", cws.checker.spec, next_back(cws.checker.statuses)>>

\* the snapshot of the keys is left out of Initial
list_initial_without_keys(map) == <<"Initial", {}>>

list_initial_message(map) == <<"Initial", keys(map)>>

Subscription(rx, initial) ==
    [rx |-> rx, initial |-> initial, pc |-> "initial", frames |-> <<>>]

GetCheckerWsReq(name) ==
    LET w == get_checker_with_sender(app_state, name) IN
    /\ opened < MaxSubs /\ commits + 2 * opened + 2 <= MaxLoad
    /\ IF w = None
       THEN /\ resp' = Resp("get_checker_ws", name, 404, None)
            /\ UNCHANGED <<subs, opened>>
       ELSE /\ opened' = opened + 1
            /\ subs' = Append(subs,
                  Subscription(CheckerWithSender_subscribe(w[1]),
                               checker_initial_message(w[1])))
            /\ resp' = Resp("get_checker_ws", name, 101, None)
    /\ UNCHANGED <<app_state, channels, ledger, commits, rb_vars, main_vars>>

\* the upgrade also announces itself to the list subscribers
GetGlobalWsAnnounces ==
    LET sent == send(Bus, app_state.checkers.sender, <<"Insert", "a">>) IN
    /\ opened < MaxSubs /\ commits + 2 * opened + 2 <= MaxLoad
    /\ opened' = opened + 1
    /\ subs' = Append(sent.subs,
          Subscription(BTreeMapWithSender_subscribe(app_state.checkers),
                       list_initial_message(app_state.checkers)))
    /\ resp' = Resp("get_global_ws", "", 101, None)
    /\ UNCHANGED <<app_state, channels, ledger, commits, rb_vars, main_vars>>

GetGlobalWsReq ==
    /\ opened < MaxSubs /\ commits + 2 * opened + 2 <= MaxLoad
    /\ opened' = opened + 1
    /\ subs' = Append(subs,
          Subscription(BTreeMapWithSender_subscribe(app_state.checkers),
                       list_initial_message(app_state.checkers)))
    /\ resp' = Resp("get_global_ws", "", 101, None)
    /\ UNCHANGED <<app_state, channels, ledger, commits, rb_vars, main_vars>>

\* the Lagged frame also counts the message the receiver resumes at
WsFrameCountsOneMore(r) ==
    IF r.kind = "lagged" THEN <<"Lagged", r.val + 1>> ELSE r.val

WsFrame(r) == IF r.kind = "lagged" THEN <<"Lagged", r.val>> ELSE r.val

WsOnly(i, sub) ==
    /\ subs' = [subs EXCEPT ![i] = sub]
    /\ UNCHANGED <<app_state, channels, opened, resp, ledger, commits, rb_vars, main_vars>>

\* the task of subscription i is over: its receiver, its Initial message and
\* its socket are dropped, and the subscription is no longer live
WsEnds(i) ==
    /\ subs' = SubSeq(subs, 1, i - 1) \o SubSeq(subs, i + 1, Len(subs))
    /\ UNCHANGED <<app_state, channels, opened, resp, ledger, commits, rb_vars, main_vars>>

\* lines 247-251: the Initial frame is sent; a failure is only logged
WsSendInitialAt(i) ==
    /\ subs[i].pc = "initial"
    /\ WsOnly(i, [subs[i] EXCEPT !.pc = "loop",
                                 !.frames = Append(@, subs[i].initial)])

WsSendInitialFailsAt(i) ==
    /\ subs[i].pc = "initial"
    /\ WsOnly(i, [subs[i] EXCEPT !.pc = "loop"])

\* a loop that takes a lag report for the end of the stream
WsForwardEndsOnLagAt(i) ==
    LET r == recv(channels, subs[i].rx) IN
    /\ subs[i].pc = "loop"
    /\ r.kind \in {"msg", "lagged"}
    /\ IF r.kind = "lagged"
       THEN WsEnds(i)
       ELSE WsOnly(i, [subs[i] EXCEPT !.rx = r.rx, !.frames = Append(@, r.val)])

\* lines 254-272: one turn of the forwarding loop whose send succeeds
WsForwardAt(i) ==
    LET r == recv(channels, subs[i].rx) IN
    /\ subs[i].pc = "loop"
    /\ r.kind \in {"msg", "lagged"}
    /\ WsOnly(i, [subs[i] EXCEPT !.rx = r.rx, !.frames = Append(@, WsFrame(r))])

\* the same turn when the send fails: break, close
WsSendFailsAt(i) ==
    LET r == recv(channels, subs[i].rx) IN
    /\ subs[i].pc = "loop"
    /\ r.kind \in {"msg", "lagged"}
    /\ WsEnds(i)

\* the stream ended (channel closed and drained): the loop exits, line 274
WsStreamEndAt(i) ==
    /\ subs[i].pc = "loop"
    /\ recv(channels, subs[i].rx).kind = "closed"
    /\ WsEnds(i)

\* lines 279-280: the peer went away, the task is aborted
WsPeerClosesAt(i) == WsEnds(i)

GetGlobalWs == UNCHANGED <<lock_vars, client_vars>> /\ GetGlobalWsReq

PostCheckerSpec ==
    /\ UNCHANGED <<lock_vars, client_vars>>
    /\ \E name \in Names, spec \in Specs : PostCheckerSpecReq(name, spec)
PutCheckerSpec ==
    /\ UNCHANGED <<lock_vars, client_vars>>
    /\ \E name \in Names, spec \in Specs : PutCheckerSpecReq(name, spec)
PostCheckerStatus ==
    /\ UNCHANGED <<lock_vars, client_vars>>
    /\ \E name \in Names, status \in Statuses, now \in Times :
          PostCheckerStatusReq(name, status, now)
DeleteChecker ==
    /\ UNCHANGED <<lock_vars, client_vars>>
    /\ \E name \in Names : DeleteCheckerReq(name)
GetCheckerWs ==
    /\ UNCHANGED <<lock_vars, client_vars>>
    /\ \E name \in Names : GetCheckerWsReq(name)
WsSendInitial ==
    /\ UNCHANGED <<lock_vars, client_vars>>
    /\ \E i \in DOMAIN subs : WsSendInitialAt(i)
WsSendInitialFails ==
    /\ UNCHANGED <<lock_vars, client_vars>>
    /\ \E i \in DOMAIN subs : WsSendInitialFailsAt(i)
WsForward ==
    /\ UNCHANGED <<lock_vars, client_vars>>
    /\ \E i \in DOMAIN subs : WsForwardAt(i)
WsSendFails ==
    /\ UNCHANGED <<lock_vars, client_vars>>
    /\ \E i \in DOMAIN subs : WsSendFailsAt(i)
WsStreamEnd ==
    /\ UNCHANGED <<lock_vars, client_vars>>
    /\ \E i \in DOMAIN subs : WsStreamEndAt(i)
WsPeerCloses ==
    /\ UNCHANGED <<lock_vars, client_vars>>
    /\ \E i \in DOMAIN subs : WsPeerClosesAt(i)

(***************************************************************************)
(* Persistence  (src/swec/src/main.rs lines 149-221).                      *)
(* dump_file is [exists, content]; content is what the file holds from its *)
(* first byte to its last.  restore_checkers returns [kind, checkers],     *)
(* kind "ok" for Ok(..), "err" for Err(..) and "panic" when the expect of  *)
(* line 216 fails.                                                         *)
(***************************************************************************)
\* seek(SeekFrom::Start(0)) then write_all(data): the bytes of the file
\* past the end of data are left as they are
write_from_start(content, data) ==
    data \o SubSeq(content, Len(data) + 1, Len(content))

\* the file is cut at the end of what was written
dump_and_truncate(st, file) ==
    [exists |-> TRUE, content |-> checkers_to_json(st)]

\* main.rs lines 149-159, every step Ok
dump_checkers(st, file) ==
    [exists |-> TRUE,
     content |-> write_from_start(file.content, checkers_to_json(st))]

\* main.rs lines 149-159, a step returning Err: the first n bytes of the
\* serialization reached the file (none when seek fails)
dump_checkers_err(st, file, n) ==
    [exists |-> TRUE,
     content |-> write_from_start(file.content,
                                  SubSeq(checkers_to_json(st), 1, n))]

\* main.rs lines 209-218
\* the histories are cut whatever mode was asked for
reconcile_always_truncates(checker, history_length, truncate) ==
    [ok |-> TRUE,
     checker |-> [checker EXCEPT !.statuses = truncate_fifo(@, history_length)]]

reconcile(checker, history_length, truncate) ==
    IF truncate
    THEN [ok |-> TRUE,
          checker |-> [checker EXCEPT !.statuses = truncate_fifo(@, history_length)]]
    ELSE [ok |-> resize(checker.statuses, history_length).ok,
          checker |-> [checker EXCEPT !.statuses = resize(@, history_length).rb]]

\* a file that does not parse is taken for an empty one
restore_checkers_lenient(file, history_length, truncate) ==
    LET d == from_slice(file.content) IN
    IF ~file.exists THEN [kind |-> "err", checkers |-> <<>>]
    ELSE IF file.content = <<>> \/ ~d.ok THEN [kind |-> "ok", checkers |-> <<>>]
    ELSE [kind |-> "ok",
          checkers |-> [name \in DOMAIN d.val |->
                           reconcile(d.val[name], history_length, TRUE).checker]]

\* the histories are left with the capacity deserialization gave them
restore_checkers_as_read(file, history_length, truncate) ==
    LET d == from_slice(file.content) IN
    IF ~file.exists THEN [kind |-> "err", checkers |-> <<>>]
    ELSE IF file.content = <<>> THEN [kind |-> "ok", checkers |-> <<>>]
    ELSE IF ~d.ok THEN [kind |-> "err", checkers |-> <<>>]
    ELSE [kind |-> "ok", checkers |-> d.val]

\* main.rs lines 188-221
restore_checkers(file, history_length, truncate) ==
    LET d == from_slice(file.content) IN
    IF ~file.exists THEN [kind |-> "err", checkers |-> <<>>]
    ELSE IF file.content = <<>> THEN [kind |-> "ok", checkers |-> <<>>]
    ELSE IF ~d.ok THEN [kind |-> "err", checkers |-> <<>>]
    ELSE IF \E name \in DOMAIN d.val :
                ~reconcile(d.val[name], history_length, truncate).ok
    THEN [kind |-> "panic", checkers |-> <<>>]
    ELSE [kind |-> "ok",
          checkers |-> [name \in DOMAIN d.val |->
                           reconcile(d.val[name], history_length, truncate).checker]]

(***************************************************************************)
(* proc, the server process:                                               *)
(*   proc.pc     "down" (not running), "serving" (inside the select! of    *)
(*               main.rs lines 105-110), "stopping" (past it)              *)
(*   proc.runs   number of times main() was entered                        *)
(*   proc.exit   the exit code of the last run, None before it ended       *)
(*   proc.cause  what ended the select! of the run, until main() returns   *)
(*   proc.final  the final dump of the last run: "none", "ok", "failed"    *)
(***************************************************************************)
Process(pc, runs, exit, cause, final) ==
    [pc |-> pc, runs |-> runs, exit |-> exit, cause |-> cause, final |-> final]

\* the process under Spec and SpecRB: serving, started on a file that holds
\* the dump of the checkers it restored
MainServing(checkers) ==
    /\ dump_file = [exists |-> TRUE, content |-> to_string(checkers)]
    /\ proc = Process("serving", 1, None, "none", "none")

\* api.rs lines 29-40: the handlers routed by the read-only router
read_only_router ==
    {"get_api_info", "get_checkers", "get_checker_names", "get_global_ws",
     "get_checker", "get_checker_spec", "get_checker_statuses",
     "get_checker_status", "get_checker_ws"}

\* api.rs lines 43-49
read_write_router ==
    read_only_router \cup
        {"delete_checker", "post_checker_spec", "put_checker_spec", "post_checker_status"}

(***************************************************************************)
(* Arc<RwLock<AppState>> (main.rs line 53) and the tasks that take it.     *)
(*   lock.readers  the tasks holding a read guard                          *)
(*   lock.writer   the tasks holding the write guard (none or one)         *)
(*   tasks[t].kind the handler, or dump_checkers, that task t runs         *)
(*   tasks[t].pc   "idle"; "waiting" in read().await / write().await;      *)
(*                 "locked" while the guard lives; "io" once the guard is  *)
(*                 dropped and the response, the upgrade or the file write *)
(*                 is under way                                            *)
(*   tasks[t].out  what dump_checkers serialized under the guard           *)
(***************************************************************************)
\* a request in flight at each listener, and the dumper task
Tasks == {"public", "private", "dumper"}

\* main.rs lines 55-89: the router each listener serves
Routed(t) == IF t = "public" THEN read_only_router ELSE read_write_router

RwLock_new == [readers |-> {}, writer |-> {}]

Task(kind, pc, out) == [kind |-> kind, pc |-> pc, out |-> out]

LockIdle ==
    /\ lock = RwLock_new
    /\ tasks = [t \in Tasks |-> Task("none", "idle", <<>>)]

(***************************************************************************)
(* The command-line client (src/swec-client/src/main.rs).                  *)
(*   client.pc    "idle"; "get_info" (about to GET /info); "write" and     *)
(*                "read" (about to send the request of the subcommand);    *)
(*                "exited"                                                 *)
(*   client.cmd   the subcommand and its arguments                         *)
(*   client.url   the listener behind --base-url, or "nowhere"             *)
(*   client.info  the Result of get_info: None before it returned,         *)
(*                Some([ok, writable]) after                               *)
(*   client.sent  the requests sent so far in this run, in order           *)
(*   client.exit  the exit code of the run                                 *)
(*   client.runs  number of runs started                                   *)
(***************************************************************************)
Client(pc, cmd, url, info, sent, exit, runs) ==
    [pc |-> pc, cmd |-> cmd, url |-> url, info |-> info, sent |-> sent,
     exit |-> exit, runs |-> runs]

ClientIdle == client = Client("idle", <<"none">>, "nowhere", None, <<>>, None, 0)

(***************************************************************************)
(* writers, the two writers of the dump file.  main() opens swec_dump.json *)
(* once (main.rs lines 47-51); the dumper is given a try_clone of that     *)
(* File (line 93) and the final dump uses the File itself (line 115), so   *)
(* both write through one open file description and share its offset.     *)
(*   writers.offset   the offset of the open file description              *)
(*   writers.main     where the final dump_checkers of main() is           *)
(*   writers.dumper   where the dump_checkers of the dumper task is        *)
(* each [pc, out]: pc "idle", "serialized" (line 154 done, out the JSON),  *)
(* "seeked" (line 155 done)                                                *)
(***************************************************************************)
Dump(pc, out) == [pc |-> pc, out |-> out]

Writers(offset, main, dumper) == [offset |-> offset, main |-> main, dumper |-> dumper]

WritersIdle == writers = Writers(0, Dump("idle", <<>>), Dump("idle", <<>>))

RbIdle ==
    /\ rb = RingBuffer_new(0)
    /\ rb_call = [op |-> "new", arg |-> 0, ok |-> TRUE, before |-> RingBuffer_new(0),
                  fed |-> <<>>, plain |-> TRUE, n |-> 0, cap0 |-> 0]

\* The registry the server is started on: what restore_checkers returns for
\* a dump holding checker "a" with no status (its history resized to
\* history_len, main.rs lines 209-218).  DELETE leads to the empty registry.
Restored(history_len) ==
    { [name \in {"a"} |->
          Checker_new("S1", resize(RingBuffer_from(<<>>), history_len).rb)] }

\* what the dump says the restored checkers hold
LedgerOf(checkers) ==
    [name \in DOMAIN checkers |->
        [spec |-> checkers[name].spec, posted |-> checkers[name].statuses.inner]]

ServerInitWith(checkers, history_len) ==
    /\ app_state = AppState_new(checkers, history_len).st
    /\ channels = AppState_new(checkers, history_len).bus.channels
    /\ subs = <<>>
    /\ opened = 0
    /\ resp = Resp("none", "", 0, None)
    /\ ledger = LedgerOf(checkers)
    /\ commits = 0

Init ==
    /\ \E history_len \in 1..MaxHistoryLen :
          \E checkers \in Restored(history_len) :
             /\ ServerInitWith(checkers, history_len)
             /\ MainServing(checkers)
    /\ RbIdle
    /\ LockIdle
    /\ ClientIdle
    /\ WritersIdle

Next ==
    \/ PostCheckerSpec
    \/ PutCheckerSpec
    \/ PostCheckerStatus
    \/ DeleteChecker
    \/ GetCheckerWs
    \/ GetGlobalWs
    \/ WsSendInitial
    \/ WsSendInitialFails
    \/ WsForward
    \/ WsSendFails
    \/ WsStreamEnd
    \/ WsPeerCloses

Spec == Init /\ [][Next]_vars

(***************************************************************************)
(* SpecRB: one RingBuffer, built by new or by deserialization, then driven *)
(* by push, push_multiple, resize, truncate_fifo and a trip through JSON.  *)
(*   rb_call.op      the method last called ("new", "from", "push", ...)   *)
(*   rb_call.arg     its capacity argument (resize, truncate_fifo, new)    *)
(*   rb_call.ok      the Result of resize                                  *)
(*   rb_call.before  the buffer before the call                            *)
(*   rb_call.fed     every element pushed since construction, in order     *)
(*   rb_call.plain   TRUE while only push/push_multiple followed new(n)    *)
(*   rb_call.n       number of calls made                                  *)
(*   rb_call.cap0    the capacity the buffer was constructed with          *)
(***************************************************************************)
RbCall(op, arg, ok, before, fed, plain, n) ==
    [op |-> op, arg |-> arg, ok |-> ok, before |-> before,
     fed |-> fed, plain |-> plain, n |-> n, cap0 |-> rb_call.cap0]

RbConstructed(op, buf) ==
    [op |-> op, arg |-> buf.capacity, ok |-> TRUE, before |-> buf,
     fed |-> <<>>, plain |-> (op = "new"), n |-> 0, cap0 |-> buf.capacity]

RbInit ==
    /\ ServerInitWith(<<>>, 1)
    /\ MainServing(<<>>)
    /\ LockIdle
    /\ ClientIdle
    /\ WritersIdle
    /\ \/ \E cap \in 0..MaxCapacity :
             /\ rb = RingBuffer_new(cap)
             /\ rb_call = RbConstructed("new", RingBuffer_new(cap))
       \/ \E deq \in SeqsUpTo(Elems, 2) :
             /\ rb = RingBuffer_from(deq)
             /\ rb_call = RbConstructed("from", RingBuffer_from(deq))

RbPush ==
    /\ rb_call.n < MaxRbOps
    /\ UNCHANGED <<server_vars, main_vars, lock_vars, client_vars>>
    /\ \E e \in Elems :
          /\ rb' = push(rb, e)
          /\ rb_call' = RbCall("push", 0, TRUE, rb, Append(rb_call.fed, e),
                               rb_call.plain, rb_call.n + 1)

RbPushMultiple ==
    /\ rb_call.n < MaxRbOps
    /\ UNCHANGED <<server_vars, main_vars, lock_vars, client_vars>>
    /\ \E es \in [1..2 -> Elems] :
          /\ rb' = push_multiple(rb, es)
          /\ rb_call' = RbCall("push_multiple", 0, TRUE, rb, rb_call.fed \o es,
                               rb_call.plain, rb_call.n + 1)

RbResize ==
    /\ rb_call.n < MaxRbOps
    /\ UNCHANGED <<server_vars, main_vars, lock_vars, client_vars>>
    /\ \E cap \in 0..MaxCapacity :
          LET r == resize(rb, cap) IN
          /\ rb' = r.rb
          /\ rb_call' = RbCall("resize", cap, r.ok, rb, rb_call.fed,
                               FALSE, rb_call.n + 1)

RbTruncateFifo ==
    /\ rb_call.n < MaxRbOps
    /\ UNCHANGED <<server_vars, main_vars, lock_vars, client_vars>>
    /\ \E cap \in 0..MaxCapacity :
          /\ rb' = truncate_fifo(rb, cap)
          /\ rb_call' = RbCall("truncate_fifo", cap, TRUE, rb, rb_call.fed,
                               FALSE, rb_call.n + 1)

\* serde_json::to_string then serde_json::from_str (the tests of lines
\* 283-298): the buffer is replaced by what its serialization reads as
RbSerde ==
    /\ rb_call.n < MaxRbOps
    /\ UNCHANGED <<server_vars, main_vars, lock_vars, client_vars>>
    /\ LET d == RingBuffer_deserialize(RingBuffer_serialize(rb), 1) IN
       /\ rb' = d.val
       /\ rb_call' = RbCall("serde", 0, d.ok, rb, rb_call.fed,
                            FALSE, rb_call.n + 1)

RbNext == RbPush \/ RbPushMultiple \/ RbResize \/ RbTruncateFifo \/ RbSerde

SpecRB == RbInit /\ [][RbNext]_vars

(***************************************************************************)
(* SpecMain: the life of the server process over the dump file             *)
(* (src/swec/src/main.rs).  main() restores the registry from the file,    *)
(* serves requests while the dumper task rewrites the file, leaves its     *)
(* select! on a listener returning, on the dumper task ending or on a stop *)
(* signal, dumps one last time and returns; the process is then started    *)
(* again on the file it left.  No WebSocket is opened under SpecMain.      *)
(***************************************************************************)
\* number of times the process is started
MaxRuns == 2
\* bytes of a failed dump that may have reached the file
MaxPartial == 1
\* number of mutations committed over the runs of SpecMain
MaxMainCommits == 2
\* number of mutations and subscriptions, done or in flight, under SpecLock
MaxLockOps == 2

\* main.rs lines 125-132
StopSignals == {"ALRM", "HUP", "INT", "PIPE", "QUIT", "TERM"}
\* main.rs lines 106-107
Listeners == {"public", "private"}

\* the registries whose dump the first run may find
DumpedCheckers ==
    { [name \in {"a"} |-> Checker_new("S1", RingBuffer_from(h))] :
         h \in {<<>>, << <<1, "up">>, <<1, "down">> >>} }

\* what the first run may find at swec_dump.json: nothing, an empty file, a
\* dump, or a file that is not the JSON of a map of checkers
InitialFiles ==
    {[exists |-> FALSE, content |-> <<>>],
     [exists |-> TRUE, content |-> <<>>],
     [exists |-> TRUE, content |-> << <<"[">>, <<"]">> >>]}
    \cup {[exists |-> TRUE, content |-> to_string(c)] : c \in DumpedCheckers}

MainInit ==
    /\ ServerInitWith(<<>>, 1)
    /\ RbIdle
    /\ LockIdle
    /\ ClientIdle
    /\ WritersIdle
    /\ dump_file \in InitialFiles
    /\ proc = Process("down", 0, None, "none", "none")

\* main.rs lines 26-53: history_len and truncate_histories are fixed in the
\* source (3600, false); a run is started with any of the small values.
\* Err from restore_checkers is exit(1); a panic ends the process with 101.
MainStartWith(history_len, truncate_histories) ==
    LET r == restore_checkers(dump_file, history_len, truncate_histories)
        made == AppState_new(r.checkers, history_len)
    IN
    /\ proc.pc = "down" /\ proc.runs < MaxRuns
    /\ IF r.kind = "ok"
       THEN /\ app_state' = made.st
            /\ channels' = made.bus.channels
            /\ ledger' = LedgerOf(r.checkers)
            /\ proc' = Process("serving", proc.runs + 1, None, "none", "none")
       ELSE /\ UNCHANGED <<app_state, channels, ledger>>
            /\ proc' = Process("down", proc.runs + 1,
                               Some(IF r.kind = "err" THEN 1 ELSE 101),
                               "none", "none")
    /\ subs' = <<>>
    /\ resp' = Resp("none", "", 0, None)
    /\ UNCHANGED <<opened, commits, dump_file, writers, rb_vars, lock_vars, client_vars>>

MainStart ==
    \E history_len \in 1..MaxHistoryLen, truncate_histories \in BOOLEAN :
        MainStartWith(history_len, truncate_histories)

\* the private listener serves the writes while main() is in its select!
ServePostCheckerSpec ==
    proc.pc = "serving" /\ commits < MaxMainCommits /\ PostCheckerSpec
ServePutCheckerSpec ==
    proc.pc = "serving" /\ commits < MaxMainCommits /\ PutCheckerSpec
ServePostCheckerStatus ==
    proc.pc = "serving" /\ commits < MaxMainCommits /\ PostCheckerStatus
ServeDeleteChecker ==
    proc.pc = "serving" /\ commits < MaxMainCommits /\ DeleteChecker

\* main.rs lines 161-186: one turn of the dumper's loop, the dump Ok
DumperDumps ==
    /\ proc.pc = "serving"
    /\ dump_file' = dump_checkers(app_state, dump_file)
    /\ UNCHANGED <<server_vars, rb_vars, lock_vars, client_vars, proc, writers>>

\* one turn of the dumper's loop, the dump Err: logged, the loop goes on
DumperDumpFails ==
    /\ proc.pc = "serving"
    /\ \E n \in 0..Min(MaxPartial, Len(checkers_to_json(app_state)) - 1) :
          dump_file' = dump_checkers_err(app_state, dump_file, n)
    /\ UNCHANGED <<server_vars, rb_vars, lock_vars, client_vars, proc, writers>>

\* main.rs lines 106-107: a listener's serve future returns
ListenerReturns ==
    /\ proc.pc = "serving"
    /\ \E l \in Listeners : proc' = [proc EXCEPT !.pc = "stopping", !.cause = l]
    /\ UNCHANGED <<server_vars, rb_vars, lock_vars, client_vars, dump_file, writers>>

\* main.rs line 109 and lines 124-147
StopSignalReceived ==
    /\ proc.pc = "serving"
    /\ \E sig \in StopSignals : proc' = [proc EXCEPT !.pc = "stopping", !.cause = sig]
    /\ UNCHANGED <<server_vars, rb_vars, lock_vars, client_vars, dump_file, writers>>

\* main.rs line 108: the dumper task never returns, so its JoinHandle
\* resolves only when the task panicked (the expect of line 167); the branch
\* is unreachable!(), which panics main()
DumperEnds ==
    /\ proc.pc = "serving"
    /\ proc' = [proc EXCEPT !.pc = "down", !.cause = "dumper", !.exit = Some(101)]
    /\ UNCHANGED <<server_vars, rb_vars, lock_vars, client_vars, dump_file, writers>>

\* main.rs lines 115-121: the final dump Ok, then main() returns Ok(())
FinalDump ==
    /\ proc.pc = "stopping"
    /\ dump_file' = dump_checkers(app_state, dump_file)
    /\ proc' = [proc EXCEPT !.pc = "down", !.cause = "none",
                             !.exit = Some(0), !.final = "ok"]
    /\ UNCHANGED <<server_vars, rb_vars, lock_vars, client_vars, writers>>

\* main.rs lines 115-121: the final dump Err, warned about, then Ok(())
FinalDumpFails ==
    /\ proc.pc = "stopping"
    /\ \E n \in 0..Min(MaxPartial, Len(checkers_to_json(app_state)) - 1) :
          dump_file' = dump_checkers_err(app_state, dump_file, n)
    /\ proc' = [proc EXCEPT !.pc = "down", !.cause = "none",
                             !.exit = Some(0), !.final = "failed"]
    /\ UNCHANGED <<server_vars, rb_vars, lock_vars, client_vars, writers>>

MainNext ==
    \/ MainStart
    \/ ServePostCheckerSpec
    \/ ServePutCheckerSpec
    \/ ServePostCheckerStatus
    \/ ServeDeleteChecker
    \/ DumperDumps
    \/ DumperDumpFails
    \/ ListenerReturns
    \/ StopSignalReceived
    \/ DumperEnds
    \/ FinalDump
    \/ FinalDumpFails

SpecMain == MainInit /\ [][MainNext]_vars

(***************************************************************************)
(* SpecLock: the server of Spec with its lock made explicit.  A request    *)
(* or a turn of the dumper waits for the guard, runs the statement that    *)
(* holds it (the guard is a temporary of that statement and is dropped at  *)
(* its end), and only then responds, upgrades or writes the file.          *)
(***************************************************************************)
\* the handlers that call app_state.write().await
WriteHandlers ==
    {"delete_checker", "post_checker_spec", "put_checker_spec", "post_checker_status"}

\* the handlers that call app_state.read().await and answer from what they read
ReadHandlers ==
    {"get_checkers", "get_checker_names", "get_checker", "get_checker_spec",
     "get_checker_statuses", "get_checker_status"}

InFlight == Cardinality({t \in Tasks \ {"dumper"} : tasks[t].pc # "idle"})

Holds(t, kind) == tasks[t].pc = "locked" /\ tasks[t].kind = kind

\* the statement holding the guard ends: the guard is dropped
DropGuard(t, out) ==
    /\ lock' = [readers |-> lock.readers \ {t}, writer |-> lock.writer \ {t}]
    /\ tasks' = [tasks EXCEPT ![t] = Task(tasks[t].kind, "io", out)]

\* a request is routed to its handler (get_api_info takes no lock), or the
\* dumper wakes up (main.rs lines 170-180)
LkArrive ==
    /\ \E t \in Tasks :
          /\ tasks[t].pc = "idle"
          /\ t # "dumper" => commits + opened + InFlight < MaxLockOps
          /\ \E kind \in (IF t = "dumper" THEN {"dump_checkers"}
                          ELSE Routed(t) \ {"get_api_info"}) :
                tasks' = [tasks EXCEPT ![t] = Task(kind, "waiting", <<>>)]
    /\ UNCHANGED <<lock, server_vars, main_vars, rb_vars, client_vars>>

\* RwLock::read: granted while no write guard lives
LkRead ==
    /\ \E t \in Tasks :
          /\ tasks[t].pc = "waiting"
          /\ tasks[t].kind \notin WriteHandlers
          /\ lock.writer = {}
          /\ lock' = [lock EXCEPT !.readers = @ \cup {t}]
          /\ tasks' = [tasks EXCEPT ![t].pc = "locked"]
    /\ UNCHANGED <<server_vars, main_vars, rb_vars, client_vars>>

\* RwLock::write: granted while no guard lives
LkWrite ==
    /\ \E t \in Tasks :
          /\ tasks[t].pc = "waiting"
          /\ tasks[t].kind \in WriteHandlers
          /\ lock.writer = {} /\ lock.readers = {}
          /\ lock' = [lock EXCEPT !.writer = {t}]
          /\ tasks' = [tasks EXCEPT ![t].pc = "locked"]
    /\ UNCHANGED <<server_vars, main_vars, rb_vars, client_vars>>

LkPostCheckerSpec ==
    \E t \in Tasks :
        /\ UNCHANGED client_vars
        /\ Holds(t, "post_checker_spec") /\ DropGuard(t, None)
        /\ \E name \in Names, spec \in Specs : PostCheckerSpecReq(name, spec)

LkPutCheckerSpec ==
    \E t \in Tasks :
        /\ UNCHANGED client_vars
        /\ Holds(t, "put_checker_spec") /\ DropGuard(t, None)
        /\ \E name \in Names, spec \in Specs : PutCheckerSpecReq(name, spec)

LkPostCheckerStatus ==
    \E t \in Tasks :
        /\ UNCHANGED client_vars
        /\ Holds(t, "post_checker_status") /\ DropGuard(t, None)
        /\ \E name \in Names, status \in Statuses, now \in Times :
              PostCheckerStatusReq(name, status, now)

LkDeleteChecker ==
    \E t \in Tasks :
        /\ UNCHANGED client_vars
        /\ Holds(t, "delete_checker") /\ DropGuard(t, None)
        /\ \E name \in Names : DeleteCheckerReq(name)

\* api.rs lines 57-81, 93-101 and 136-162: the state is only read (what the
\* handlers answer is get_checker_response and the like, above)
LkGet ==
    /\ \E t \in Tasks :
          /\ tasks[t].pc = "locked" /\ tasks[t].kind \in ReadHandlers
          /\ DropGuard(t, None)
    /\ UNCHANGED <<server_vars, main_vars, rb_vars, client_vars>>

\* the place in subs of the subscription a step has just opened, if any
Opened == IF Len(subs') > Len(subs) THEN Some(Len(subs')) ELSE None

\* api.rs lines 192-204: the guard lives to the end of the let statement
LkGetCheckerWs ==
    \E t \in Tasks :
        /\ UNCHANGED client_vars
        /\ Holds(t, "get_checker_ws")
        /\ \E name \in Names : GetCheckerWsReq(name)
        /\ DropGuard(t, Opened)

\* api.rs lines 217-223: the guard lives to the end of the block
LkGetGlobalWs ==
    \E t \in Tasks :
        /\ UNCHANGED client_vars
        /\ Holds(t, "get_global_ws")
        /\ GetGlobalWsReq
        /\ DropGuard(t, Opened)

\* the dumper writes while it still holds its read guard
LkSerializeKeepsGuard ==
    /\ Holds("dumper", "dump_checkers")
    /\ lock' = lock
    /\ tasks' = [tasks EXCEPT !["dumper"] =
                    Task("dump_checkers", "io", checkers_to_json(app_state))]
    /\ UNCHANGED <<server_vars, main_vars, rb_vars, client_vars>>

\* main.rs line 154: the guard lives to the end of the let statement
LkSerialize ==
    /\ Holds("dumper", "dump_checkers")
    /\ DropGuard("dumper", checkers_to_json(app_state))
    /\ UNCHANGED <<server_vars, main_vars, rb_vars, client_vars>>

\* the handler has returned: axum writes the response it built
LkRespond ==
    /\ \E t \in Tasks \ {"dumper"} :
          /\ tasks[t].pc = "io" /\ tasks[t].out = None
          /\ tasks' = [tasks EXCEPT ![t] = Task("none", "idle", <<>>)]
    /\ UNCHANGED <<lock, server_vars, main_vars, rb_vars, client_vars>>

\* api.rs lines 207, 227 and 247-251: the upgrade is answered and
\* handle_ws, which never touches the lock, sends the Initial frame
LkUpgrade ==
    \E t \in Tasks \ {"dumper"} :
        /\ UNCHANGED client_vars
        /\ tasks[t].pc = "io" /\ tasks[t].out # None
        /\ WsSendInitialAt(tasks[t].out[1])
        /\ tasks' = [tasks EXCEPT ![t] = Task("none", "idle", <<>>)]
        /\ lock' = lock

LkUpgradeSendFails ==
    \E t \in Tasks \ {"dumper"} :
        /\ UNCHANGED client_vars
        /\ tasks[t].pc = "io" /\ tasks[t].out # None
        /\ WsSendInitialFailsAt(tasks[t].out[1])
        /\ tasks' = [tasks EXCEPT ![t] = Task("none", "idle", <<>>)]
        /\ lock' = lock

\* main.rs lines 155-157, every step Ok
LkWriteFile ==
    /\ tasks["dumper"].pc = "io"
    /\ dump_file' = [exists |-> TRUE,
                     content |-> write_from_start(dump_file.content,
                                                  tasks["dumper"].out)]
    /\ tasks' = [tasks EXCEPT !["dumper"] = Task("none", "idle", <<>>)]
    /\ UNCHANGED <<lock, server_vars, rb_vars, proc, writers, client_vars>>

\* main.rs lines 155-157, a step returning Err after n bytes: logged
LkWriteFileFails ==
    /\ tasks["dumper"].pc = "io"
    /\ \E n \in 0..Min(MaxPartial, Len(tasks["dumper"].out) - 1) :
          dump_file' = [exists |-> TRUE,
                        content |-> write_from_start(dump_file.content,
                                        SubSeq(tasks["dumper"].out, 1, n))]
    /\ tasks' = [tasks EXCEPT !["dumper"] = Task("none", "idle", <<>>)]
    /\ UNCHANGED <<lock, server_vars, rb_vars, proc, writers, client_vars>>

LockNext ==
    \/ LkArrive
    \/ LkRead
    \/ LkWrite
    \/ LkPostCheckerSpec
    \/ LkPutCheckerSpec
    \/ LkPostCheckerStatus
    \/ LkDeleteChecker
    \/ LkGet
    \/ LkGetCheckerWs
    \/ LkGetGlobalWs
    \/ LkSerialize
    \/ LkRespond
    \/ LkUpgrade
    \/ LkUpgradeSendFails
    \/ LkWriteFile
    \/ LkWriteFileFails

SpecLock == Init /\ [][LockNext]_vars

(***************************************************************************)
(* SpecClient: runs of the command-line client against the two listeners   *)
(* of a serving process.  A write that is sent is served by the handler of *)
(* the private listener; the public listener has no route for it.          *)
(***************************************************************************)
\* number of runs of the client
MaxClientRuns == 2

\* the subcommands (main.rs lines 186-250); checker of Get is an Option
GetCommands ==
    {<<"get", what, checker>> :
        what \in {"spec", "statuses", "watch"},
        checker \in {None} \cup {Some(name) : name \in Names}}

WriteCommands ==
    {<<"post_spec", name, spec>> : name \in Names, spec \in Specs}
    \cup {<<"post_status", name, status>> : name \in Names, status \in Statuses}
    \cup {<<"put", name, spec>> : name \in Names, spec \in Specs}
    \cup {<<"delete", name>> : name \in Names}

\* --base-url: one of the two listeners, or an address nothing answers at
BaseUrls == Listeners \cup {"nowhere"}

\* api.rs lines 51-55 with the ApiInfo of main.rs lines 59-62 and 77-80
get_api_info(listener) == [writable |-> listener = "private"]

\* ReadApi::get_info (client.rs lines 106-108): Err when the request or the
\* decoding of the answer fails, else the ApiInfo of the listener
get_info(url) ==
    {[ok |-> FALSE, writable |-> FALSE]}
    \cup (IF url \in Listeners
          THEN {[ok |-> TRUE, writable |-> get_api_info(url).writable]}
          ELSE {})

\* where the run goes after get_info returned r: [pc, exit]
Goes(pc, exit) == [pc |-> pc, exit |-> exit]

\* the write is sent to whatever answered /info
handle_write_trusting(r) ==
    IF ~r.ok THEN Goes("exited", Some(1)) ELSE Goes("write", None)

\* main.rs lines 97-104
handle_write(r) ==
    IF ~r.ok THEN Goes("exited", Some(1))
    ELSE IF ~r.writable THEN Goes("exited", Some(1))
    ELSE Goes("write", None)

\* main.rs line 40: expect panics on Err
handle_get(r) ==
    IF ~r.ok THEN Goes("exited", Some(101)) ELSE Goes("read", None)

\* main.rs lines 13-36: the options are parsed and the client is built
ClientStart ==
    /\ client.pc \in {"idle", "exited"}
    /\ client.runs < MaxClientRuns
    /\ \E cmd \in GetCommands \cup WriteCommands, url \in BaseUrls :
          client' = Client("get_info", cmd, url, None, <<>>, None, client.runs + 1)
    /\ UNCHANGED <<server_vars, rb_vars, main_vars, lock_vars>>

\* main.rs lines 40 and 97-104: GET /info and what is made of its result
ClientGetInfo ==
    /\ client.pc = "get_info"
    /\ \E r \in get_info(client.url) :
          LET goes == IF client.cmd[1] = "get" THEN handle_get(r) ELSE handle_write(r)
          IN  client' = [client EXCEPT !.pc = goes.pc, !.exit = goes.exit,
                                       !.info = Some(r),
                                       !.sent = Append(@, <<"GET", "/info">>)]
    /\ UNCHANGED <<server_vars, rb_vars, main_vars, lock_vars>>

\* the request req leaves the client, which prints the result and returns
ClientSends(req) ==
    client' = [client EXCEPT !.pc = "exited", !.exit = Some(0),
                             !.sent = Append(@, req)]

\* the public router has no route for a write: nothing is changed
NoRoute == UNCHANGED <<server_vars, rb_vars, main_vars>>

\* main.rs lines 107-109
ClientPostSpec ==
    /\ client.pc = "write" /\ client.cmd[1] = "post_spec"
    /\ ClientSends(<<"POST", "spec", client.cmd[2]>>)
    /\ IF client.url = "private"
       THEN PostCheckerSpecReq(client.cmd[2], client.cmd[3])
       ELSE NoRoute
    /\ UNCHANGED lock_vars

\* main.rs lines 110-112
ClientPostStatus ==
    /\ client.pc = "write" /\ client.cmd[1] = "post_status"
    /\ ClientSends(<<"POST", "statuses", client.cmd[2]>>)
    /\ IF client.url = "private"
       THEN \E now \in Times : PostCheckerStatusReq(client.cmd[2], client.cmd[3], now)
       ELSE NoRoute
    /\ UNCHANGED lock_vars

\* main.rs lines 114-116
ClientDelete ==
    /\ client.pc = "write" /\ client.cmd[1] = "delete"
    /\ ClientSends(<<"DELETE", "checker", client.cmd[2]>>)
    /\ IF client.url = "private"
       THEN DeleteCheckerReq(client.cmd[2])
       ELSE NoRoute
    /\ UNCHANGED lock_vars

\* main.rs lines 117-119
ClientPutSpec ==
    /\ client.pc = "write" /\ client.cmd[1] = "put"
    /\ ClientSends(<<"PUT", "spec", client.cmd[2]>>)
    /\ IF client.url = "private"
       THEN PutCheckerSpecReq(client.cmd[2], client.cmd[3])
       ELSE NoRoute
    /\ UNCHANGED lock_vars

\* main.rs lines 41-92: the reads of handle_get
ClientRead ==
    /\ client.pc = "read"
    /\ ClientSends(<<"GET", client.cmd[2], client.cmd[3]>>)
    /\ UNCHANGED <<server_vars, rb_vars, main_vars, lock_vars>>

ClientNext ==
    \/ ClientStart
    \/ ClientGetInfo
    \/ ClientPostSpec
    \/ ClientPostStatus
    \/ ClientDelete
    \/ ClientPutSpec
    \/ ClientRead

SpecClient == Init /\ [][ClientNext]_vars

(***************************************************************************)
(* SpecStop: the end of a run, with dump_checkers taken step by step.  The *)
(* dumper task is spawned (main.rs line 94) and its JoinHandle is dropped  *)
(* when the select! of lines 105-110 completes, which detaches the task:   *)
(* it runs until main() returns.                                           *)
(***************************************************************************)
\* write_all then flush at the offset of the open file description: the
\* bytes before the offset and past the end of data are left as they are
write_at(content, offset, data) ==
    SubSeq(content, 1, offset) \o data
        \o SubSeq(content, offset + Len(data) + 1, Len(content))

\* main.rs lines 169-179 and 154: the sleep is over or SIGUSR1 arrived, and
\* the registry is serialized under the read lock
DumperSerializes ==
    /\ proc.pc \in {"serving", "stopping"}
    /\ writers.dumper.pc = "idle"
    /\ writers' = [writers EXCEPT
                      !.dumper = Dump("serialized", checkers_to_json(app_state))]
    /\ UNCHANGED <<server_vars, rb_vars, lock_vars, client_vars, dump_file, proc>>

\* main.rs line 155, in the dumper
DumperSeeks ==
    /\ proc.pc \in {"serving", "stopping"}
    /\ writers.dumper.pc = "serialized"
    /\ writers' = [writers EXCEPT !.offset = 0, !.dumper.pc = "seeked"]
    /\ UNCHANGED <<server_vars, rb_vars, lock_vars, client_vars, dump_file, proc>>

\* main.rs lines 156-157, in the dumper
DumperWrites ==
    /\ proc.pc \in {"serving", "stopping"}
    /\ writers.dumper.pc = "seeked"
    /\ dump_file' = [exists |-> TRUE,
                     content |-> write_at(dump_file.content, writers.offset,
                                          writers.dumper.out)]
    /\ writers' = [writers EXCEPT
                      !.offset = @ + Len(writers.dumper.out),
                      !.dumper = Dump("idle", <<>>)]
    /\ UNCHANGED <<server_vars, rb_vars, lock_vars, client_vars, proc>>

\* main.rs lines 115 and 154: the final dump serializes the registry
FinalSerializes ==
    /\ proc.pc = "stopping"
    /\ writers.main.pc = "idle"
    /\ writers' = [writers EXCEPT
                      !.main = Dump("serialized", checkers_to_json(app_state))]
    /\ UNCHANGED <<server_vars, rb_vars, lock_vars, client_vars, dump_file, proc>>

\* main.rs line 155, in the final dump
FinalSeeks ==
    /\ proc.pc = "stopping"
    /\ writers.main.pc = "serialized"
    /\ writers' = [writers EXCEPT !.offset = 0, !.main.pc = "seeked"]
    /\ UNCHANGED <<server_vars, rb_vars, lock_vars, client_vars, dump_file, proc>>

\* main.rs lines 156-157 and 121: the final dump is written and main()
\* returns Ok(()), which ends every task
FinalWrites ==
    /\ proc.pc = "stopping"
    /\ writers.main.pc = "seeked"
    /\ dump_file' = [exists |-> TRUE,
                     content |-> write_at(dump_file.content, writers.offset,
                                          writers.main.out)]
    /\ writers' = [writers EXCEPT
                      !.offset = @ + Len(writers.main.out),
                      !.main = Dump("idle", <<>>)]
    /\ proc' = [proc EXCEPT !.pc = "down", !.cause = "none",
                             !.exit = Some(0), !.final = "ok"]
    /\ UNCHANGED <<server_vars, rb_vars, lock_vars, client_vars>>

StopNext ==
    \/ ServePostCheckerSpec
    \/ ServePutCheckerSpec
    \/ ServePostCheckerStatus
    \/ ServeDeleteChecker
    \/ DumperSerializes
    \/ DumperSeeks
    \/ DumperWrites
    \/ ListenerReturns
    \/ StopSignalReceived
    \/ FinalSerializes
    \/ FinalSeeks
    \/ FinalWrites

SpecStop == Init /\ [][StopNext]_vars

(***************************************************************************)
(* Ring buffer properties (checked under SpecRB).                          *)
(***************************************************************************)

\* C4: for every capacity N >= 0 given to RingBuffer::new and every sequence
\* pushed with push / push_multiple into the new buffer, the contents are the
\* last min(m, N) pushed elements in order, len() = min(m, N) and
\* capacity() is still N.
C4_PushKeepsLastCapacityElements ==
    rb_call.plain =>
        LET m == Len(rb_call.fed)
            N == rb_call.cap0
        IN  /\ iter(rb) = LastN(rb_call.fed, Min(m, N))
            /\ len(rb) = Min(m, N)
            /\ capacity(rb) = N

C6_TruncateFifoKeepsNewest ==
    rb_call.op = "truncate_fifo" =>
        /\ capacity(rb) = rb_call.arg
        /\ iter(rb) = LastN(iter(rb_call.before),
                            Min(len(rb_call.before), rb_call.arg))

(***************************************************************************)
(* Server properties (checked under Spec).                                 *)
(*   events(sub)    the frames sent after the Initial frame                *)
(*   Expand(ev)     ev with every Lagged(n) replaced by n holes, so that   *)
(*                  position j stands for the j-th message of the log      *)
(***************************************************************************)
Hole == <<"Hole">>

IsInitial(f) == f[1] = "Initial"

events(sub) == SelectSeq(sub.frames, LAMBDA f : ~IsInitial(f))

RECURSIVE Expand(_)
Expand(ev) ==
    IF ev = <<>> THEN <<>>
    ELSE (IF Head(ev)[1] = "Lagged"
          THEN [k \in 1..Head(ev)[2] |-> Hole]
          ELSE <<Head(ev)>>) \o Expand(Tail(ev))

Lags(sub) == \E k \in DOMAIN sub.frames : sub.frames[k][1] = "Lagged"

Present(name) == name \in keys(app_state.checkers)

\* the live subscriptions of the checker behind name / of the key list
SubsOf(name) ==
    {i \in DOMAIN subs : subs[i].rx.chan = app_state.checkers.btreemap[name].sender}

ListSubs == {i \in DOMAIN subs : subs[i].rx.chan = app_state.checkers.sender}

CheckerSubs == DOMAIN subs \ ListSubs

\* the subscriptions in S get msg to read, every other one is left alone
Broadcast(S, msg) ==
    /\ DOMAIN subs' = DOMAIN subs
    /\ \A i \in DOMAIN subs :
          subs'[i] = IF i \in S
                     THEN [subs[i] EXCEPT !.rx.log = Append(@, msg)]
                     ELSE subs[i]

C1_Frames ==
    \A i \in CheckerSubs :
        LET sub == subs[i]
            got == Expand(events(sub))
        IN  /\ Len(got) = sub.rx.next
            /\ sub.rx.next <= Len(sub.rx.log)
            /\ \A j \in 1..Len(got) : got[j] \in {sub.rx.log[j], Hole}
            /\ ~Lags(sub) => events(sub) = SubSeq(sub.rx.log, 1, sub.rx.next)

C1_Commit ==
    /\ \A name \in Names, spec \in Specs :
          PutCheckerSpecReq(name, spec) /\ Present(name) =>
              Broadcast(SubsOf(name), <<"UpdatedSpec", spec>>)
    /\ \A name \in Names, status \in Statuses, now \in Times :
          PostCheckerStatusReq(name, status, now) /\ Present(name) =>
              Broadcast(SubsOf(name), <<"AddedStatus", now, status>>)

Newest(posted) == IF posted = <<>> THEN None ELSE Some(posted[Len(posted)])

C2_Subscribe ==
    \A name \in Names :
        GetCheckerWsReq(name) /\ Present(name) =>
            /\ resp'.code = 101
            /\ Len(subs') = Len(subs) + 1
            /\ LET sub == subs'[Len(subs')] IN
               /\ sub.initial = <<"Initial", ledger[name].spec,
                                  Newest(ledger[name].posted)>>
               /\ sub.rx.log = <<>>
               /\ sub.rx.next = 0
               /\ sub.frames = <<>>

C2_InitialFirst ==
    \A i \in DOMAIN subs :
        \A k \in DOMAIN subs[i].frames :
            IsInitial(subs[i].frames[k]) =>
                k = 1 /\ subs[i].frames[k] = subs[i].initial

\* C2: the Initial message of a checker subscription carries the spec last
\* acknowledged and the newest history entry (none for an empty history) as
\* they stand when the receiver is made; the receiver starts with nothing to
\* read, so a mutation committed before is in Initial and is never forwarded
\* afterwards, and Initial is only ever the first frame.
C2_InitialReflectsCommitted == []C2_InitialFirst /\ [][C2_Subscribe]_vars

\* C2 witness: an Initial frame went out that carries a replaced spec and
\* the newer of two history entries.
C2_Witness ==
    \E i \in CheckerSubs :
        /\ subs[i].frames # <<>>
        /\ subs[i].frames[1] = <<"Initial", "S2", Some(<<1, "down">>)>>
        /\ Present("a")
        /\ ledger["a"].posted = <<<<1, "up">>, <<1, "down">>>>

\* C3: after k acknowledged POSTs of a status on a checker and no delete,
\* GET statuses answers 200 with the last min(k, H) posted entries, oldest
\* first, H being the history length the server runs with.
C3_StatusesAreLastPosted ==
    \A name \in DOMAIN ledger :
        LET k == Len(ledger[name].posted) IN
        get_checker_statuses_response(app_state, name) =
            [code |-> 200,
             body |-> Some(LastN(ledger[name].posted,
                                 Min(k, app_state.history_len)))]

\* C3 witness: more statuses than the history holds were posted to a checker
\* created by POST, the last one differing from the one before.
C3_Witness ==
    /\ Present("b")
    /\ Len(ledger["b"].posted) > app_state.history_len
    /\ ledger["b"].posted[Len(ledger["b"].posted)] = <<1, "down">>
    /\ ledger["b"].posted[Len(ledger["b"].posted) - 1] = <<1, "up">>

C7_Created ==
    \A name \in Names, spec \in Specs :
        PostCheckerSpecReq(name, spec) /\ ~Present(name) =>
            /\ resp'.code = 201
            /\ resp'.body = Some(spec)
            /\ get_checker_spec_response(app_state', name) =
                   [code |-> 200, body |-> Some(spec)]
            /\ get_checker_statuses_response(app_state', name) =
                   [code |-> 200, body |-> Some(<<>>)]

C7_Kept ==
    \A name \in Names :
        (/\ Present(name)
         /\ ~DeleteCheckerReq(name)
         /\ ~\E spec \in Specs : PutCheckerSpecReq(name, spec)) =>
            get_checker_spec_response(app_state', name) =
                get_checker_spec_response(app_state, name)

\* C7: POST spec S on an absent name answers 201 with S; GET spec then
\* answers 200 with exactly S and GET statuses 200 with the empty history,
\* and no step other than a PUT spec or a DELETE on that name changes what
\* GET spec answers.
C7_PostCreatesWithSpec == [][C7_Created /\ C7_Kept]_vars

\* C7 witness: a checker created by POST with S2 has taken statuses since
\* and GET spec still answers S2.
C7_Witness ==
    /\ Present("b")
    /\ ledger["b"].spec = "S2"
    /\ Len(ledger["b"].posted) = 2
    /\ get_checker_spec_response(app_state, "b") = [code |-> 200, body |-> Some("S2")]

C8_Conflict ==
    \A name \in Names, spec \in Specs :
        PostCheckerSpecReq(name, spec) /\ Present(name) =>
            /\ resp'.code = 409
            /\ app_state' = app_state
            /\ channels' = channels
            /\ subs' = subs

\* C8: POST spec on a present name answers 409 and changes nothing: the
\* registry (keys, specs, histories) is as before and no subscriber of the
\* key list or of the checker gets a message to read.
C8_PostOnPresentChangesNothing == [][C8_Conflict]_vars

\* C8 witness: a POST on a present checker was refused while the key list
\* and the checker each had a subscriber waiting in its forwarding loop.
C8_Witness ==
    /\ resp.op = "post_checker_spec"
    /\ resp.code = 409
    /\ Present(resp.name)
    /\ \A i \in DOMAIN subs : subs[i].pc = "loop"
    /\ ListSubs # {}
    /\ SubsOf(resp.name) # {}

C9_Put ==
    \A name \in Names, spec \in Specs :
        PutCheckerSpecReq(name, spec) /\ Present(name) =>
            /\ resp'.code = 200
            /\ get_checker_spec_response(app_state', name) =
                   [code |-> 200, body |-> Some(spec)]
            /\ get_checker_statuses_response(app_state', name) =
                   get_checker_statuses_response(app_state, name)
            /\ Broadcast(SubsOf(name), <<"UpdatedSpec", spec>>)

\* what a subscription forwarded for the messages of kinds it has passed
Forwarded(kinds, lost) ==
    \A i \in DOMAIN subs :
        LET sub == subs[i]
            got == Expand(events(sub))
        IN  \A j \in 1..sub.rx.next :
                sub.rx.log[j][1] \in kinds =>
                    /\ j <= Len(got)
                    /\ got[j] \in {sub.rx.log[j]} \cup lost

\* C9 as stated: every subscriber of the checker attached before the PUT is
\* forwarded UpdatedSpec(S) once its receiver has passed it.
C9_EverySubscriberGetsUpdatedSpec == Forwarded({"UpdatedSpec"}, {})

\* C9 (amended): PUT spec S on a present checker answers 200, makes S what
\* GET spec answers, leaves the history as it was and puts UpdatedSpec(S)
\* before every subscriber of the checker attached at that moment; a
\* subscriber that has passed it was forwarded UpdatedSpec(S), or a
\* Lagged(n) frame that counts it.
C9_PutUpdatesAndBroadcasts ==
    []Forwarded({"UpdatedSpec"}, {Hole}) /\ [][C9_Put]_vars

\* C9 witness: after a PUT answered 200, GET spec answers the new spec and
\* two subscribers of the checker were both forwarded its UpdatedSpec.
C9_Witness ==
    /\ Present("a")
    /\ resp = Resp("put_checker_spec", "a", 200, Some("S2"))
    /\ get_checker_spec_response(app_state, "a") = [code |-> 200, body |-> Some("S2")]
    /\ Cardinality(SubsOf("a")) = 2
    /\ \A i \in SubsOf("a") :
          /\ events(subs[i]) # <<>>
          /\ events(subs[i])[Len(events(subs[i]))] = <<"UpdatedSpec", "S2">>

C10_Delete ==
    \A name \in Names :
        DeleteCheckerReq(name) /\ Present(name) =>
            /\ resp'.code = 200
            /\ resp'.body = get_checker_response(app_state, name).body
            /\ resp'.body[1].spec = ledger[name].spec
            /\ iter(resp'.body[1].statuses) =
                   LastN(ledger[name].posted,
                         Min(Len(ledger[name].posted), app_state.history_len))
            /\ get_checker_response(app_state', name) = [code |-> 404, body |-> None]
            /\ channels'[app_state.checkers.btreemap[name].sender].closed
            /\ DOMAIN subs' = DOMAIN subs
            /\ \A i \in DOMAIN subs :
                  subs'[i] =
                      IF i \in SubsOf(name)
                      THEN [subs[i] EXCEPT !.rx.log = Append(@, <<"CheckerDropped">>)]
                      ELSE IF i \in ListSubs
                      THEN [subs[i] EXCEPT !.rx.log = Append(@, <<"Remove", name>>)]
                      ELSE subs[i]

\* a subscription that has read its closed channel to the end was
\* forwarded CheckerDropped last
C10_Farewell ==
    \A i \in DOMAIN subs :
        LET sub == subs[i] IN
        (/\ channels[sub.rx.chan].closed
         /\ sub.pc = "loop"
         /\ sub.rx.next = Len(sub.rx.log)) =>
            /\ events(sub) # <<>>
            /\ events(sub)[Len(events(sub))] = <<"CheckerDropped">>

\* C10 as stated: every list subscriber attached before the DELETE is
\* forwarded Remove(X) once its receiver has passed it.
C10_EveryListSubscriberGetsRemove == Forwarded({"Remove"}, {})

\* C10 (amended): DELETE on a present checker answers 200 with the spec and
\* the full history it held, GET on the name then answers 404, and
\* CheckerDropped is put before every subscriber of the checker and
\* Remove(X) before every list subscriber attached at that moment.  A
\* checker subscriber that has passed CheckerDropped was forwarded it, and
\* it is its last frame when the stream ends; a list subscriber that has
\* passed Remove(X) was forwarded it, or a Lagged(n) frame that counts it.
C10_DeleteAnswersAndNotifies ==
    /\ [](/\ Forwarded({"CheckerDropped"}, {})
          /\ Forwarded({"Remove"}, {Hole})
          /\ C10_Farewell)
    /\ [][C10_Delete]_vars

\* C10 witness: after a DELETE answered 200 with the checker it removed, a
\* subscriber of that checker was forwarded CheckerDropped and a list
\* subscriber Remove.
C10_Witness ==
    /\ resp.op = "delete_checker"
    /\ resp.code = 200
    /\ resp.body[1].spec = "S1"
    /\ ~Present(resp.name)
    /\ \E i \in CheckerSubs, j \in ListSubs :
          /\ events(subs[i]) # <<>>
          /\ events(subs[i])[Len(events(subs[i]))] = <<"CheckerDropped">>
          /\ events(subs[j]) = << <<"Remove", resp.name>> >>

\* C11: CheckerDropped is the last message of a checker instance: nothing is
\* broadcast on its channel after it, and on every subscription of the
\* instance, lagging or not, no frame of any kind follows the CheckerDropped
\* frame.
C11_CheckerDroppedIsLast ==
    \A i \in DOMAIN subs :
        /\ \A j \in DOMAIN subs[i].rx.log :
              subs[i].rx.log[j] = <<"CheckerDropped">> => j = Len(subs[i].rx.log)
        /\ \A k \in DOMAIN subs[i].frames :
              subs[i].frames[k] = <<"CheckerDropped">> => k = Len(subs[i].frames)

\* C11 witness: a subscriber that was lagging when its checker was removed
\* was forwarded the lag report and then CheckerDropped.
C11_Witness ==
    \E i \in DOMAIN subs :
        /\ channels[subs[i].rx.chan].closed
        /\ Len(subs[i].frames) = 3
        /\ subs[i].frames[2][1] = "Lagged"
        /\ subs[i].frames[3] = <<"CheckerDropped">>

\* the receiver of subscription i has fallen behind: messages it has not
\* passed are no longer retained
Lagging(i) ==
    subs[i].rx.next < Len(subs[i].rx.log) - ChannelCapacity

C12_LagStep ==
    \A i \in DOMAIN subs :
        (subs[i].pc = "loop" /\ Lagging(i) /\ WsForwardAt(i)) =>
            LET lost == Len(subs[i].rx.log) - ChannelCapacity - subs[i].rx.next
            IN  /\ DOMAIN subs' = DOMAIN subs
                /\ subs'[i].frames = Append(subs[i].frames, <<"Lagged", lost>>)
                /\ subs'[i].pc = "loop"
                /\ subs'[i].rx.log = subs[i].rx.log
                /\ subs'[i].rx.next = subs[i].rx.next + lost
                /\ recv(channels', subs'[i].rx).kind = "msg"
                /\ recv(channels', subs'[i].rx).val =
                       subs[i].rx.log[subs[i].rx.next + lost + 1]

\* C12: when the receiver of a subscription reports that it fell behind by n
\* messages, the handler sends exactly one Lagged(n) frame, the subscription
\* stays in its forwarding loop, and the next message it forwards is the
\* oldest one still retained; the end of the stream is never taken while a
\* lag is pending.
C12_LagKeepsSubscription ==
    /\ [](\A i \in DOMAIN subs : Lagging(i) => ~ENABLED WsStreamEndAt(i))
    /\ [][C12_LagStep]_vars

\* C12 witness: a subscription that fell behind by two messages was sent
\* Lagged(2) and then the message that was still retained, and is still in
\* its loop.
C12_Witness ==
    \E i \in DOMAIN subs :
        /\ subs[i].pc = "loop"
        /\ Len(subs[i].frames) = 3
        /\ subs[i].frames[2] = <<"Lagged", 2>>
        /\ subs[i].frames[3] = subs[i].rx.log[3]

\* the event frames of a checker subscription / of a list subscription
CheckerEvents == {"UpdatedSpec", "AddedStatus"}

ListEvents == {"Insert", "InsertReplace", "Remove"}

\* C13: on every subscription the frames sent so far are one Initial first,
\* then event frames of the subscription's kind possibly mixed with Lagged,
\* then, on a checker subscription only, at most one CheckerDropped with
\* nothing after it; Initial is never sent a second time.
C13_FrameGrammar ==
    \A i \in DOMAIN subs :
        LET f == subs[i].frames IN
        f # <<>> =>
            /\ IsInitial(f[1])
            /\ \A k \in 2..Len(f) :
                  \/ f[k][1] = "Lagged"
                  \/ i \in ListSubs /\ f[k][1] \in ListEvents
                  \/ i \in CheckerSubs /\ f[k][1] \in CheckerEvents
                  \/ i \in CheckerSubs /\ f[k] = <<"CheckerDropped">> /\ k = Len(f)

\* a write takes its place behind every write committed before it: each
\* subscriber of the checker gets msg to read after all it already had
C14_Behind(name, msg) ==
    \A i \in SubsOf(name) :
        /\ Len(subs'[i].rx.log) = Len(subs[i].rx.log) + 1
        /\ SubSeq(subs'[i].rx.log, 1, Len(subs[i].rx.log)) = subs[i].rx.log
        /\ subs'[i].rx.log[Len(subs'[i].rx.log)] = msg

C14_Writes ==
    /\ \A name \in Names, spec \in Specs :
          PutCheckerSpecReq(name, spec) /\ Present(name) =>
              C14_Behind(name, <<"UpdatedSpec", spec>>)
    /\ \A name \in Names, status \in Statuses, now \in Times :
          PostCheckerStatusReq(name, status, now) /\ Present(name) =>
              C14_Behind(name, <<"AddedStatus", now, status>>)

\* a subscriber that has never lagged is forwarded the oldest write it has
\* not been sent yet
C14_Forwards ==
    \A i \in DOMAIN subs :
        (WsForwardAt(i) /\ ~Lags(subs[i]) /\ ~Lagging(i)) =>
            subs'[i].frames =
                Append(subs[i].frames, subs[i].rx.log[Len(events(subs[i])) + 1])

Content(checkers) ==
    [name \in DOMAIN checkers |->
        [spec |-> checkers[name].spec, statuses |-> checkers[name].statuses.inner]]

\* the last run ended with a final dump that completed
DumpedAndDown == proc.pc = "down" /\ proc.final = "ok"

C15_Restart ==
    \A history_len \in 1..MaxHistoryLen, truncate_histories \in BOOLEAN :
        (/\ DumpedAndDown
         /\ \A name \in DOMAIN get_checkers(app_state) :
               history_len >= Len(get_checkers(app_state)[name].statuses.inner)
         /\ MainStartWith(history_len, truncate_histories))
        => /\ proc'.pc = "serving"
           /\ Content(get_checkers(app_state')) = Content(get_checkers(app_state))
           /\ \A name \in DOMAIN get_checkers(app_state') :
                 get_checkers(app_state')[name].statuses.capacity = history_len

C15_Kept ==
    proc.pc = "serving" =>
        \A name \in DOMAIN get_checkers(app_state) :
            get_checkers(app_state)[name].statuses.inner =
                LastN(ledger[name].posted, app_state.history_len)

\* C15: when a run has dumped its registry R in its final dump and the
\* process is started again with a history length H' that is at least the
\* length of every history of R, the restored registry has the names of R,
\* the spec of each and the status entries of each in order, every history
\* has capacity H', and from then on a history holds the last H' of the
\* restored entries followed by the entries posted since.
C15_DumpRestartRoundTrip == []C15_Kept /\ [][C15_Restart]_vars

C16_Dump ==
    (DumperDumps \/ FinalDump) =>
        /\ dump_file'.content = checkers_to_json(app_state)
        /\ restore_checkers(dump_file', app_state.history_len, FALSE).kind = "ok"
        /\ Content(restore_checkers(dump_file', app_state.history_len, FALSE).checkers)
              = Content(get_checkers(app_state))

\* C16: a dump that completes (a turn of the dumper, or the final dump)
\* leaves a file whose whole content is the JSON of the registry it read,
\* whatever the file held before, and restoring from that file gives the
\* names, specs and histories of that registry.
C16_FileIsTheSnapshot == [][C16_Dump]_vars

Unparsable(file) ==
    file.exists /\ file.content # <<>> /\ ~from_slice(file.content).ok

C17_Start ==
    MainStart =>
        /\ (dump_file.exists /\ dump_file.content = <<>>) =>
              /\ proc'.pc = "serving" /\ proc'.exit = None
              /\ get_checkers(app_state') = <<>>
        /\ Unparsable(dump_file) =>
              /\ proc'.pc = "down" /\ proc'.exit = Some(1)
              /\ resp'.op = "none"

C17_NothingServed ==
    proc.pc = "down" =>
        /\ ~ENABLED ServePostCheckerSpec /\ ~ENABLED ServePutCheckerSpec
        /\ ~ENABLED ServePostCheckerStatus /\ ~ENABLED ServeDeleteChecker
        /\ proc.exit = Some(1) => resp.op = "none"

\* C17: started on a dump file that exists and is empty, the server serves
\* with an empty registry; started on a file that is not empty and is not
\* the JSON of a map of checkers, the process ends with exit code 1, and no
\* request was or can be served by that run.
C17_EmptyStartsUnparsableAborts == []C17_NothingServed /\ [][C17_Start]_vars

\* C17 witness: a first run found the file empty and served (a failed dump
\* left one byte in it), and the second run, finding that byte, exited with
\* code 1 without serving.
C17_Witness ==
    /\ proc.pc = "down" /\ proc.runs = 2 /\ proc.exit = Some(1)
    /\ dump_file = [exists |-> TRUE, content |-> << <<"{">> >>]
    /\ resp.op = "none"

\* a step that initiates shutdown: a listener returned, the dumper task
\* ended, or a stop signal was received
C18_Initiated == ListenerReturns \/ StopSignalReceived \/ DumperEnds

C18_Shutdown ==
    /\ C18_Initiated => proc'.pc = "stopping"
    /\ (proc.pc = "stopping" /\ proc'.pc = "down") =>
          /\ proc'.exit = Some(0)
          /\ \/ /\ proc'.final = "ok"
                /\ dump_file' = dump_checkers(app_state, dump_file)
             \/ proc'.final = "failed"
    /\ (proc.pc = "serving" /\ proc'.pc # "serving") => proc'.pc = "stopping"

\* C18: whatever ends the select! of main (either listener returning, the
\* dumper task ending, one of the signals ALRM, HUP, INT, PIPE, QUIT, TERM),
\* the process goes on to its final dump: it leaves the serving state only
\* for the final dump, and it exits with code 0 after that dump wrote the
\* current registry or failed.
C18_FinalDumpBeforeExit == [][C18_Shutdown]_vars

(***************************************************************************)
(* Serialization properties (checked under SpecRB).                        *)
(***************************************************************************)
\* the elements a JSON array holds, in the order of the document
ElementsOf(doc) == [k \in 1..(Len(doc) - 2) |-> doc[k + 1][2]]

C19_Serialize ==
    /\ ElementsOf(RingBuffer_serialize(rb)) = iter(rb)
    /\ \A cap \in 0..MaxCapacity :
          RingBuffer_serialize([rb EXCEPT !.capacity = cap]) = RingBuffer_serialize(rb)

C19_Deserialize ==
    /\ \A deq \in SeqsUpTo(Elems, MaxCapacity) :
          LET d == RingBuffer_deserialize(serialize_seq(deq), 1) IN
          d.ok /\ iter(d.val) = deq /\ capacity(d.val) = Len(deq)
    /\ rb_call.op = "serde" =>
          /\ rb_call.ok
          /\ iter(rb) = iter(rb_call.before)
          /\ capacity(rb) = len(rb_call.before)

C19_Checker ==
    \A checker_spec \in Specs :
        LET d == Checker_deserialize(Checker_serialize(Checker_new(checker_spec, rb)), 1)
        IN  /\ d.ok
            /\ d.val.spec = checker_spec
            /\ iter(d.val.statuses) = iter(rb)
            /\ capacity(d.val.statuses) = len(rb)

\* C19: the serialization of a ring buffer is the array of its elements,
\* oldest first, whatever its capacity; reading an array gives a buffer
\* holding the elements in the order of the document, with capacity equal
\* to its length; a Checker written and read back has the same spec and the
\* same statuses in order, and a history whose capacity is its length.
C19_SerdeKeepsContents == C19_Serialize /\ C19_Deserialize /\ C19_Checker

\* C19 witness: a buffer of capacity 3 holding 2 elements went through JSON
\* and came back with the 2 elements and capacity 2.
C19_Witness ==
    /\ rb_call.op = "serde"
    /\ capacity(rb_call.before) = 3
    /\ iter(rb_call.before) = <<"x", "y">>
    /\ iter(rb) = <<"x", "y">>
    /\ capacity(rb) = 2

(***************************************************************************)
(* Requests on absent names (checked under Spec).                          *)
(***************************************************************************)
NotFound == [code |-> 404, body |-> None]

\* the reads of an absent name
C20_Reads ==
    \A name \in Names :
        ~Present(name) =>
            /\ get_checker_response(app_state, name) = NotFound
            /\ get_checker_spec_response(app_state, name) = NotFound
            /\ get_checker_statuses_response(app_state, name) = NotFound

\* a request on name other than POST spec has been served
C20_Request(name) ==
    \/ DeleteCheckerReq(name)
    \/ \E spec \in Specs : PutCheckerSpecReq(name, spec)
    \/ \E status \in Statuses, now \in Times : PostCheckerStatusReq(name, status, now)
    \/ GetCheckerWsReq(name)

C20_Refused ==
    \A name \in Names :
        (~Present(name) /\ C20_Request(name)) =>
            /\ resp'.name = name /\ resp'.code = 404 /\ resp'.body = None
            /\ app_state' = app_state
            /\ channels' = channels
            /\ subs' = subs
            /\ opened' = opened

C20_OnlyPostCreates ==
    \A name \in Names :
        (~Present(name) /\ name \in keys(app_state'.checkers)) =>
            \E spec \in Specs : PostCheckerSpecReq(name, spec) /\ resp'.code = 201

\* C20: on a name that is not in the registry, GET of the checker, of its
\* spec and of its statuses answer 404, and DELETE, PUT spec, POST status
\* and the watch upgrade answer 404 and leave the registry, the channels,
\* the subscriptions and what every subscriber has been sent or is still to
\* receive as they were; a name enters the registry by a 201 POST spec only.
C20_AbsentNameIs404 == []C20_Reads /\ [][C20_Refused /\ C20_OnlyPostCreates]_vars

\* C20 witness: a DELETE of the absent name b was answered 404 while a list
\* subscriber and a subscriber of a were live, and neither has anything to
\* receive.
C20_Witness ==
    /\ resp = Resp("delete_checker", "b", 404, None)
    /\ ~Present("b") /\ Present("a")
    /\ ListSubs # {} /\ SubsOf("a") # {}
    /\ \A i \in DOMAIN subs : subs[i].pc = "loop" /\ subs[i].rx.log = <<>>

(***************************************************************************)
(* Further server properties (checked under Spec).                         *)
(***************************************************************************)
\* the name set a list subscriber holds after applying msgs, in order
RECURSIVE ApplyList(_, _)
ApplyList(names, msgs) ==
    IF msgs = <<>> THEN names
    ELSE ApplyList(IF Head(msgs)[1] = "Insert" THEN names \cup {Head(msgs)[2]}
                   ELSE IF Head(msgs)[1] = "Remove" THEN names \ {Head(msgs)[2]}
                   ELSE names,
                   Tail(msgs))

C22_StatusIndexedFromNewest ==
    \A name \in keys(app_state.checkers) :
        LET h == iter(get_checker(app_state, name)[1].statuses)
            n == Len(h)
        IN  /\ \A index \in 0..(MaxHistoryLen + 1) :
                  get_checker_status_response(app_state, name, index) =
                      IF index < n
                      THEN [code |-> 200, body |-> Some(h[n - index])]
                      ELSE [code |-> 404, body |-> None]
            /\ Len(rev(h)) = n
            /\ \A k \in 1..n : rev(h)[k] = h[n + 1 - k]

\* C22 witness: a holds up then down; index 0 answers down, index 1 up and
\* index 2 is 404.
C22_Witness ==
    /\ Present("a")
    /\ iter(get_checker(app_state, "a")[1].statuses) = << <<1, "up">>, <<1, "down">> >>
    /\ get_checker_status_response(app_state, "a", 0).body = Some(<<1, "down">>)
    /\ get_checker_status_response(app_state, "a", 1).body = Some(<<1, "up">>)
    /\ get_checker_status_response(app_state, "a", 2).code = 404

\* a request has been served by a handler of the read-only router
C23_ReadOnlyRequest == GetGlobalWs \/ \E name \in Names : GetCheckerWsReq(name)

C23_ReadOnlyChangesNothing ==
    C23_ReadOnlyRequest =>
        /\ resp'.op \in read_only_router
        /\ app_state' = app_state
        /\ channels' = channels
        /\ \A i \in DOMAIN subs : subs'[i] = subs[i]
        /\ \A i \in DOMAIN subs' \ DOMAIN subs : subs'[i].rx.log = <<>>

\* the registry or a channel changed, or a message was queued (a subscriber
\* is to receive more than any subscriber of its channel was before)
C23_ChangesComeFromWrites ==
    (app_state' # app_state \/ channels' # channels
        \/ \E i \in DOMAIN subs : \E j \in DOMAIN subs' :
              /\ subs'[j].rx.chan = subs[i].rx.chan
              /\ Len(subs'[j].rx.log) > Len(subs[i].rx.log)
              /\ \A k \in DOMAIN subs :
                    subs[k].rx.chan = subs[i].rx.chan =>
                        Len(subs[k].rx.log) < Len(subs'[j].rx.log))
    => /\ resp'.op \in read_write_router \ read_only_router
       /\ \/ PostCheckerSpec \/ PutCheckerSpec \/ PostCheckerStatus \/ DeleteChecker

\* C23: a request served by a handler of the read-only router (the watch
\* upgrades; the GET handlers are functions of the state they read) leaves
\* the registry, its keys, every spec and history, the channels and what
\* every subscriber is to receive as they were; a step that changes the
\* registry or queues a message is a DELETE, POST or PUT handler, which only
\* the read-write router routes.
C23_ReadOnlyRouterIsReadOnly ==
    [][C23_ReadOnlyChangesNothing /\ C23_ChangesComeFromWrites]_vars

\* C23 witness: after a committed write, a second watch was opened through
\* the read-only router and no subscriber has anything to receive.
C23_Witness ==
    /\ resp.op = "get_global_ws"
    /\ Len(subs) = 2 /\ commits = 1
    /\ \A i \in DOMAIN subs : subs[i].rx.log = <<>>

\* C24: on every checker subscription whose Initial frame holds a status,
\* each AddedStatus frame sent after it carries a timestamp strictly later
\* than the timestamp of that status.
C24_AddedStatusLaterThanInitial ==
    \A i \in CheckerSubs :
        (/\ subs[i].frames # <<>>
         /\ IsInitial(subs[i].frames[1])
         /\ subs[i].frames[1][3] # None) =>
            \A k \in 2..Len(subs[i].frames) :
                subs[i].frames[k][1] = "AddedStatus" =>
                    subs[i].frames[k][2] > subs[i].frames[1][3][1][1]

\* the last message of msgs whose kind is kind, None when there is none
LastOfKind(msgs, kind) ==
    LET of == SelectSeq(msgs, LAMBDA m : m[1] = kind) IN
    IF of = <<>> THEN None ELSE Some(of[Len(of)])

\* what is stored behind name is what subscription i was told: the spec and
\* the newest status of its Initial message, replaced by the last
\* UpdatedSpec and the last AddedStatus queued for it since
C25_StoredIsBroadcast(name, i) ==
    LET c == get_checker(app_state, name)[1]
        s == LastOfKind(subs[i].rx.log, "UpdatedSpec")
        a == LastOfKind(subs[i].rx.log, "AddedStatus")
    IN  /\ c.spec = IF s = None THEN subs[i].initial[2] ELSE s[1][2]
        /\ next_back(c.statuses) =
              IF a = None THEN subs[i].initial[3] ELSE Some(<<a[1][2], a[1][3]>>)

C25_Observed ==
    \A name \in keys(app_state.checkers) :
        \A i \in SubsOf(name) : C25_StoredIsBroadcast(name, i)

\* one message msg for the subscribers of name, nothing for the others
C25_OneMessage(name, msg) ==
    /\ DOMAIN subs' = DOMAIN subs
    /\ \A i \in SubsOf(name) :
          /\ subs'[i].rx.log = Append(subs[i].rx.log, msg)
          /\ subs'[i].frames = subs[i].frames
    /\ \A i \in DOMAIN subs \ SubsOf(name) : subs'[i] = subs[i]

C25_Mutation ==
    /\ \A name \in Names, spec \in Specs :
          PutCheckerSpecReq(name, spec) /\ Present(name) =>
              /\ get_checker(app_state', name)[1].spec = spec
              /\ C25_OneMessage(name, <<"UpdatedSpec", spec>>)
    /\ \A name \in Names, status \in Statuses, now \in Times :
          PostCheckerStatusReq(name, status, now) /\ Present(name) =>
              /\ get_checker(app_state', name)[1].statuses =
                    push(get_checker(app_state, name)[1].statuses, <<now, status>>)
              /\ C25_OneMessage(name, <<"AddedStatus", now, status>>)

\* C25: a PUT spec or POST status on a present checker stores the change and
\* queues exactly one message for the subscribers of that checker (the new
\* spec; the timestamp and status appended) in one step, and nothing for
\* any other subscriber; in every state a reader can see, the spec and the
\* newest status stored are the ones the subscribers were told last.
C25_MutationAndBroadcastAreOneStep == []C25_Observed /\ [][C25_Mutation]_vars

\* C25 witness: a subscriber of a has been queued a status and a spec, and
\* a holds that spec and that status.
C25_Witness ==
    /\ Present("a")
    /\ \E i \in SubsOf("a") :
          subs[i].rx.log = << <<"AddedStatus", 1, "down">>, <<"UpdatedSpec", "S2">> >>
    /\ get_checker(app_state, "a")[1].spec = "S2"
    /\ next_back(get_checker(app_state, "a")[1].statuses) = Some(<<1, "down">>)

\* bus is Bus with msgs queued for the list subscribers and nothing else
C26_Queued(bus, msgs) ==
    /\ bus.channels = channels
    /\ DOMAIN bus.subs = DOMAIN subs
    /\ \A i \in ListSubs :
          bus.subs[i] = [subs[i] EXCEPT !.rx.log = subs[i].rx.log \o msgs]
    /\ \A i \in CheckerSubs : bus.subs[i] = subs[i]

\* insert and remove called on the registry of the state, for every key
C26_Calls ==
    \A key \in Names :
        LET value == [checker |-> Checker_new("S2", RingBuffer_new(app_state.history_len)),
                      sender |-> Len(channels) + 1]
            ins == BTreeMapWithSender_insert(Bus, app_state.checkers, key, value)
            rem == BTreeMapWithSender_remove(Bus, app_state.checkers, key)
        IN  /\ keys(ins.map) = keys(app_state.checkers) \cup {key}
            /\ ins.map.btreemap[key] = value
            /\ C26_Queued(ins.bus, IF Present(key)
                                   THEN << <<"InsertReplace", key>> >>
                                   ELSE << <<"Insert", key>> >>)
            /\ keys(rem.map) = keys(app_state.checkers) \ {key}
            /\ C26_Queued(rem.bus, IF Present(key)
                                   THEN << <<"Remove", key>> >>
                                   ELSE <<>>)

\* the requests that change the key set queue the one message of the change
C26_Requests ==
    /\ \A name \in Names, spec \in Specs :
          PostCheckerSpecReq(name, spec) =>
              \A i \in ListSubs :
                  subs'[i].rx.log =
                      subs[i].rx.log \o (IF Present(name) THEN <<>>
                                         ELSE << <<"Insert", name>> >>)
    /\ \A name \in Names :
          DeleteCheckerReq(name) =>
              \A i \in ListSubs :
                  subs'[i].rx.log =
                      subs[i].rx.log \o (IF Present(name) THEN << <<"Remove", name>> >>
                                         ELSE <<>>)
    /\ (PutCheckerSpec \/ PostCheckerStatus) =>
          /\ keys(app_state'.checkers) = keys(app_state.checkers)
          /\ \A i \in ListSubs : subs'[i] = subs[i]

\* C26: on the registry of every reachable state, insert of an absent name
\* queues Insert(name) for the list subscribers, insert over a present name
\* queues InsertReplace(name), remove of a present name queues
\* Remove(name), each exactly once and for nobody else, and remove of an
\* absent name queues nothing; POST spec and DELETE queue the one message
\* of the change they make in the step that makes it, and the writes that
\* leave the key set as it is queue none.
C26_OneListMessagePerChange == []C26_Calls /\ [][C26_Requests]_vars

\* C26 witness: a list subscriber was queued Insert(b) and Remove(a) by the
\* requests that made those changes; b is present (insert over it would
\* replace) and a is absent.
C26_Witness ==
    /\ \E i \in ListSubs :
          subs[i].rx.log = << <<"Insert", "b">>, <<"Remove", "a">> >>
    /\ Present("b") /\ ~Present("a")

(***************************************************************************)
(* Further ring buffer properties (checked under SpecRB).                  *)
(***************************************************************************)
\* C27: whatever sequence of new, push, push_multiple, resize,
\* truncate_fifo and deserialization built it, a ring buffer holds at most
\* capacity() elements.
C27_LenAtMostCapacity == len(rb) <= capacity(rb)


\* elements of the earlier contents that the later contents no longer hold
C28_Dropped(before, after) == len(after) < len(before)

\* C28: resize never removes, reorders or adds elements and never lowers
\* the capacity: when it succeeds only the capacity changes, to the requested
\* value, and when it fails the buffer is as it was.  Of the operations that
\* change the capacity, truncate_fifo is the only one after which elements
\* are gone.
C28_ResizeKeepsElements ==
    /\ rb_call.op = "resize" =>
          /\ iter(rb) = iter(rb_call.before)
          /\ capacity(rb) >= capacity(rb_call.before)
          /\ rb_call.ok => /\ capacity(rb) = rb_call.arg
                           /\ rb = [rb_call.before EXCEPT !.capacity = rb_call.arg]
          /\ ~rb_call.ok => /\ rb = rb_call.before
                            /\ rb_call.arg < capacity(rb_call.before)
    /\ (/\ rb_call.op \notin {"new", "from"}
        /\ capacity(rb) # capacity(rb_call.before)
        /\ C28_Dropped(rb_call.before, rb)) => rb_call.op = "truncate_fifo"

C28_Witness ==
    /\ rb_call.op = "resize"
    /\ rb_call.ok
    /\ len(rb_call.before) = 2
    /\ capacity(rb_call.before) = 2
    /\ rb_call.arg = 3
    /\ rb = [inner |-> rb_call.before.inner, capacity |-> 3]


(***************************************************************************)
(* Further properties of the process (checked under SpecMain)              *)
(***************************************************************************)
C29_Histories ==
    proc.pc # "down" =>
        \A name \in keys(app_state.checkers) :
            LET statuses == get_checkers(app_state)[name].statuses IN
            /\ capacity(statuses) = app_state.history_len
            /\ len(statuses) <= app_state.history_len

C29_HistoryLenIsFixed ==
    proc.pc # "down" => app_state'.history_len = app_state.history_len

\* C29: while a started server runs, in resize mode and in truncate mode,
\* the history of every checker, restored from the dump or created by a
\* POST of its spec, has capacity history_len and holds at most history_len
\* statuses, and history_len does not change.
C29_CapacityIsHistoryLen == []C29_Histories /\ [][C29_HistoryLenIsFixed]_vars

C29_Witness ==
    /\ proc.pc = "serving" /\ proc.runs = 2
    /\ app_state.history_len = 2
    /\ resp.op = "post_checker_spec" /\ resp.code = 201
    /\ keys(app_state.checkers) = {"a", "b"}
    /\ len(get_checkers(app_state)["a"].statuses) = 1
    /\ capacity(get_checkers(app_state)["a"].statuses) = 2
    /\ get_checkers(app_state)["b"].statuses = RingBuffer_new(2)


(***************************************************************************)
(* The lock around the state (checked under SpecLock)                      *)
(***************************************************************************)
\* the tasks holding a guard of the lock
C30_Holders == lock.readers \cup lock.writer

\* C30: the lock on the state is never held across network or file I/O: a
\* handler, either watch upgrade and the dumper have dropped their guard
\* before the response body or the upgrade is sent or the dump file is
\* written (a guard lives only in the statement that reads or changes the
\* state), and the dumper only ever takes the shared lock.
C30_NoGuardAcrossIo ==
    /\ \A t \in Tasks : tasks[t].pc # "locked" => t \notin C30_Holders
    /\ \A t \in C30_Holders :
          IF t \in lock.writer
          THEN tasks[t].kind \in WriteHandlers /\ C30_Holders = {t}
          ELSE tasks[t].kind \notin WriteHandlers
    /\ "dumper" \notin lock.writer

\* the dumper is about to write the file and a watch upgrade is being
\* answered while another request holds the exclusive lock
C30_Witness ==
    /\ tasks["dumper"].pc = "io" /\ tasks["dumper"].out # <<>>
    /\ tasks["public"].pc = "io" /\ tasks["public"].kind = "get_checker_ws"
    /\ resp.op = "get_checker_ws" /\ resp.code = 101
    /\ lock.writer = {"private"} /\ tasks["private"].kind = "post_checker_status"


(***************************************************************************)
(* Writers and their subscribers (checked under Spec)                      *)
(***************************************************************************)
\* the bus of the current state with every receiver gone: each send fails
C31_NoReceiver == [Bus EXCEPT !.subs = <<>>]

\* room is left in the budget of mutations
C31_Room == commits < MaxCommits /\ commits + 2 * opened + 1 <= MaxLoad

C31_SameWithAndWithoutReceivers ==
    \A name \in Names :
        /\ \A spec \in Specs :
              LET with == add_checker(app_state, Bus, name, spec)
                  without == add_checker(app_state, C31_NoReceiver, name, spec)
              IN  /\ with.ok = without.ok
                  /\ with.st = without.st
                  /\ with.bus.channels = without.bus.channels
                  /\ with.ok = (name \notin keys(app_state.checkers))
        /\ LET with == remove_checker(app_state, Bus, name)
               without == remove_checker(app_state, C31_NoReceiver, name)
           IN  /\ with.ok = without.ok
               /\ with.checker = without.checker
               /\ with.st = without.st
               /\ with.bus.channels = without.bus.channels
               /\ with.ok = Present(name)
        /\ Present(name) =>
              LET w == get_checker_with_sender(app_state, name)[1] IN
              /\ \A spec \in Specs :
                    LET with == update_spec(Bus, w, spec).cws IN
                    /\ with = update_spec(C31_NoReceiver, w, spec).cws
                    /\ with.checker.spec = spec
              /\ \A status \in Statuses, now \in Times :
                    LET with == add_status(Bus, w, now, status).cws IN
                    /\ with = add_status(C31_NoReceiver, w, now, status).cws
                    /\ with.checker.statuses = push(w.checker.statuses, <<now, status>>)

\* no mutation waits for a receiver: whatever the subscribers have read, each
\* request is served as soon as it is made
C31_NeverWaits ==
    C31_Room =>
        \A name \in Names :
            /\ \A spec \in Specs : ENABLED PostCheckerSpecReq(name, spec)
            /\ \A spec \in Specs : ENABLED PutCheckerSpecReq(name, spec)
            /\ \A status \in Statuses, now \in Times :
                  ENABLED PostCheckerStatusReq(name, status, now)
            /\ ENABLED DeleteCheckerReq(name)

\* C31: add_checker, remove_checker, update_spec and add_status store the
\* same change and return the same result, without waiting, whether the
\* channel has no receiver (the send fails), receivers whose buffer is full,
\* or receivers that never read.
C31_OutcomeIgnoresSubscribers ==
    C31_SameWithAndWithoutReceivers /\ C31_NeverWaits

\* a status was stored and acknowledged while the only subscriber of "a" had
\* read nothing and had already lost a message to its full buffer, and "b"
\* had no subscriber at all
C31_Witness ==
    /\ resp = Resp("post_checker_status", "a", 201, Some("down"))
    /\ Present("a")
    /\ SubsOf("a") # {}
    /\ \A i \in SubsOf("a") :
          /\ subs[i].pc = "initial"
          /\ subs[i].rx.next = 0
          /\ Len(subs[i].rx.log) > ChannelCapacity
    /\ iter(get_checkers(app_state)["a"].statuses)[len(get_checkers(app_state)["a"].statuses)]
          = <<1, "down">>


\* the send of the Initial frame of subscription i failed: its task is past
\* that send and the socket did not get the frame
C32_InitialSendFailed(i) ==
    /\ subs[i].pc = "loop"
    /\ subs[i].frames = <<>> \/ subs[i].frames[1] # subs[i].initial

\* C32: a failed send of a frame, the Initial frame included, ends the
\* subscription: no further frame is sent on the socket, the socket is
\* closed and the task exits.  (A failed send inside the forwarding loop
\* removes the subscription in the same step; what is left to hold in every
\* state is that no live subscription has a failed Initial send behind it.)
C32_SendFailureEndsSubscription ==
    \A i \in DOMAIN subs :
        /\ ~C32_InitialSendFailed(i)
        /\ subs[i].frames # <<>> => subs[i].frames[1] = subs[i].initial


\* the messages of its channel that receiver rx has not passed yet
C33_Undelivered(rx) == Len(rx.log) - rx.next

C34_StartupFailed == proc.pc = "down" /\ proc.exit = Some(1)

\* C34: startup fails only on a dump file that is not empty and does not
\* parse; with no dump file the server starts, on an empty registry.
C34_MissingDumpStartsEmpty == C34_StartupFailed => Unparsable(dump_file)


(***************************************************************************)
(* The command-line client (checked under SpecClient)                      *)
(***************************************************************************)
C35_IsWrite(req) == req[1] \in {"POST", "PUT", "DELETE"}

C35_Writable == Some([ok |-> TRUE, writable |-> TRUE])

\* C35: the client sends a write request (POST spec, POST status, PUT spec,
\* DELETE) only after its GET /info succeeded and reported writable = true;
\* when /info failed or reported writable = false the run ends without a
\* write having been sent.
C35_WritesOnlyWhenWritable ==
    /\ \A k \in DOMAIN client.sent :
          C35_IsWrite(client.sent[k]) =>
              /\ k > 1
              /\ client.sent[1] = <<"GET", "/info">>
              /\ client.info = C35_Writable
    /\ client.pc = "write" => client.info = C35_Writable
    /\ (/\ client.cmd \in WriteCommands
        /\ client.info # None
        /\ client.info # C35_Writable) =>
              /\ client.pc = "exited"
              /\ client.exit = Some(1)
              /\ client.sent = << <<"GET", "/info">> >>

\* a run that was told writable = true by the private listener and whose
\* POST of the spec of "b" was served
C35_Witness ==
    /\ client.pc = "exited" /\ client.exit = Some(0)
    /\ client.url = "private"
    /\ client.info = C35_Writable
    /\ client.sent = << <<"GET", "/info">>, <<"POST", "spec", "b">> >>
    /\ resp = Resp("post_checker_spec", "b", 201, Some("S2"))
    /\ Present("b")


\* every checker has a channel of its own, which is not the list channel;
\* a checker channel carries checker messages and the list channel list
\* messages; what a subscription was sent comes from its own receiver
C36_OwnChannels ==
    /\ \A n \in keys(app_state.checkers) :
          /\ app_state.checkers.btreemap[n].sender # app_state.checkers.sender
          /\ \A o \in keys(app_state.checkers) \ {n} :
                app_state.checkers.btreemap[o].sender #
                   app_state.checkers.btreemap[n].sender
    /\ \A i \in DOMAIN subs :
          /\ \A k \in DOMAIN subs[i].rx.log :
                subs[i].rx.log[k][1] \in
                   IF i \in ListSubs
                   THEN {"Insert", "InsertReplace", "Remove"}
                   ELSE {"UpdatedSpec", "AddedStatus", "CheckerDropped"}
          /\ \A k \in DOMAIN subs[i].frames :
                \/ IsInitial(subs[i].frames[k])
                \/ subs[i].frames[k][1] = "Lagged"
                \/ \E j \in DOMAIN subs[i].rx.log : subs[i].rx.log[j] = subs[i].frames[k]

\* a request on name leaves every other checker as it is, with its channel,
\* and every subscription that is neither on the channel of name nor on
\* the list channel
C36_LeavesOthers(name) ==
    /\ \A o \in keys(app_state.checkers) \ {name} :
          /\ o \in keys(app_state'.checkers)
          /\ app_state'.checkers.btreemap[o] = app_state.checkers.btreemap[o]
    /\ DOMAIN subs' = DOMAIN subs
    /\ \A i \in CheckerSubs :
          (Present(name) => i \notin SubsOf(name)) => subs'[i] = subs[i]

C36_ListQuiet == \A i \in ListSubs : subs'[i] = subs[i]

C36_Step ==
    /\ \A name \in Names :
          /\ (\/ \E spec \in Specs : PostCheckerSpecReq(name, spec)
              \/ DeleteCheckerReq(name)) => C36_LeavesOthers(name)
          /\ (\/ \E spec \in Specs : PutCheckerSpecReq(name, spec)
              \/ \E status \in Statuses, now \in Times :
                    PostCheckerStatusReq(name, status, now)) =>
                 C36_LeavesOthers(name) /\ C36_ListQuiet
    \* a step that commits no write sends nothing to any receiver
    /\ commits' = commits =>
          \A j \in DOMAIN subs' :
             \/ subs'[j].rx.log = <<>>
             \/ \E i \in DOMAIN subs :
                   /\ subs'[j].rx.chan = subs[i].rx.chan
                   /\ subs'[j].rx.log = subs[i].rx.log

\* C36: checkers are isolated from one another.  A POST spec, PUT spec, POST
\* status or DELETE on X changes the spec and history of no other checker
\* and sends nothing to the subscribers of another checker; a PUT spec or
\* POST status sends nothing on the list channel; a subscriber of X is only
\* sent messages of the channel of X, which no other checker shares.
C36_CheckersAreIsolated == []C36_OwnChannels /\ [][C36_Step]_vars

\* C36 witness: b was created and its spec replaced while a subscription of
\* a was live, which was sent nothing; a is as restored.
C36_Witness ==
    /\ resp = Resp("put_checker_spec", "b", 200, Some("S2"))
    /\ Present("a") /\ Present("b")
    /\ get_checker(app_state, "a")[1].spec = "S1"
    /\ \E i \in SubsOf("a") : subs[i].rx.log = <<>> /\ subs[i].pc = "loop"


(***************************************************************************)
(* The final dump and the dumper (checked under SpecStop)                  *)
(***************************************************************************)
\* C37: the final dump of a shutdown never runs concurrently with a dump of
\* the dumper task (while main() is inside its final dump_checkers the
\* dumper is not inside one), and the file a run leaves behind when it
\* exits after its final dump is the final snapshot of the registry.
C37_FinalDumpIsAlone ==
    /\ writers.main.pc # "idle" => writers.dumper.pc = "idle"
    /\ (proc.pc = "down" /\ proc.final = "ok") =>
           dump_file.content = checkers_to_json(app_state)


(***************************************************************************)
(* The list channel and re-created checkers (checked under Spec)           *)
(***************************************************************************)
\* the messages about name among msgs, in order
C38_About(msgs, name) == SelectSeq(msgs, LAMBDA m : m[2] = name)

\* C38: no InsertReplace is ever broadcast: every message of the list
\* channel is Insert or Remove, and the messages a list subscriber is sent
\* about one name alternate (Remove first when the name was in its Initial
\* message, Insert first otherwise, and never the same kind twice in a row).
C38_NoInsertReplace ==
    \A i \in ListSubs :
        /\ \A k \in DOMAIN subs[i].rx.log :
              subs[i].rx.log[k][1] \in {"Insert", "Remove"}
        /\ \A name \in Names :
              LET about == C38_About(subs[i].rx.log, name) IN
              /\ about # <<>> =>
                    about[1][1] = IF name \in subs[i].initial[2]
                                  THEN "Remove" ELSE "Insert"
              /\ \A k \in 1..(Len(about) - 1) : about[k][1] # about[k + 1][1]

\* C38 witness: a list subscriber saw a removed and created again, and a
\* further POST of its spec was refused with 409.
C38_Witness ==
    /\ resp = Resp("post_checker_spec", "a", 409, None)
    /\ \E i \in ListSubs :
          subs[i].rx.log = << <<"Remove", "a">>, <<"Insert", "a">> >>


\* the subscriptions whose checker was removed
C39_Orphans == {i \in DOMAIN subs : channels[subs[i].rx.chan].closed}

\* C39: a checker created by POST spec is a fresh instance, also when a
\* checker of that name was deleted before: right after the 201 it holds
\* the posted spec and an empty history of capacity history_len.  A
\* subscriber of the deleted checker has CheckerDropped as the last thing
\* queued and sent to it, and its channel is the channel of no present
\* checker, so that nothing of the new checker reaches it.
C39_RecreatedIsFresh ==
    /\ \A name \in Names :
          (resp.op = "post_checker_spec" /\ resp.name = name /\ resp.code = 201) =>
              /\ Present(name)
              /\ get_checker(app_state, name)[1] =
                    Checker_new(resp.body[1], RingBuffer_new(app_state.history_len))
    /\ \A i \in C39_Orphans :
          /\ subs[i].rx.log # <<>>
          /\ subs[i].rx.log[Len(subs[i].rx.log)] = <<"CheckerDropped">>
          /\ \A k \in DOMAIN subs[i].frames :
                subs[i].frames[k] = <<"CheckerDropped">> => k = Len(subs[i].frames)
          /\ \A name \in keys(app_state.checkers) :
                app_state.checkers.btreemap[name].sender # subs[i].rx.chan

\* C39 witness: a was deleted and created again with another spec, and the
\* new a was posted a status; the subscriber of the deleted a was sent its
\* Initial message and CheckerDropped, and queued nothing else.
C39_Witness ==
    /\ Present("a")
    /\ get_checker(app_state, "a")[1].spec = "S2"
    /\ get_checker(app_state, "a")[1].statuses.inner = << <<1, "up">> >>
    /\ \E i \in C39_Orphans :
          /\ subs[i].initial[2] = "S1"
          /\ subs[i].rx.log = << <<"CheckerDropped">> >>
          /\ subs[i].frames = <<subs[i].initial, <<"CheckerDropped">> >>


(***************************************************************************)
(* Histories on load (checked under SpecMain)                              *)
(***************************************************************************)
\* the history the dump holds for name
C40_Dumped(name) == from_slice(dump_file.content).val[name].statuses.inner

C40_Parses ==
    dump_file.exists /\ dump_file.content # <<>> /\ from_slice(dump_file.content).ok

\* the run serves the checkers of kept, each with the history kept gives it
C40_Serves(kept, history_len) ==
    /\ proc'.pc = "serving"
    /\ keys(app_state'.checkers) = DOMAIN kept
    /\ \A name \in DOMAIN kept :
          get_checker(app_state', name)[1].statuses =
              [inner |-> kept[name], capacity |-> history_len]

C40_Start ==
    (proc.pc = "down" /\ C40_Parses) =>
        LET dumped == [name \in DOMAIN from_slice(dump_file.content).val |->
                          C40_Dumped(name)]
        IN  \A history_len \in 1..MaxHistoryLen, truncate \in BOOLEAN :
                MainStartWith(history_len, truncate) =>
                    IF truncate
                    THEN C40_Serves([name \in DOMAIN dumped |->
                                        LastN(dumped[name], history_len)],
                                    history_len)
                    ELSE IF \E name \in DOMAIN dumped :
                                Len(dumped[name]) > history_len
                    THEN /\ proc'.pc = "down" /\ proc'.exit = Some(101)
                         /\ UNCHANGED <<app_state, dump_file>>
                    ELSE C40_Serves(dumped, history_len)

\* C40: a start in resize mode on a dump in which some history holds more
\* entries than history_length panics (exit code 101) instead of serving,
\* and otherwise serves every history of the dump entire; a start in
\* truncate mode serves, of each history, exactly its newest history_length
\* entries (all of them when there are no more).
C40_LongerHistoryAbortsUnlessTruncate == [][C40_Start]_vars

\* C40 witness: a run started on a dump holding a history of two entries
\* panicked (history_length was 1, resize mode), the file left as it was
C40_Witness ==
    /\ proc.pc = "down" /\ proc.exit = Some(101) /\ proc.cause = "none"
    /\ C40_Parses
    /\ C40_Dumped("a") = << <<1, "up">>, <<1, "down">> >>

=============================================================================
